---- MODULE Spec2Model ----
(***************************************************************************)
(* Model of the metadata extraction pipeline of src/aim.py:                *)
(* calculate_file_hashes, convert_gps_coordinates and                      *)
(* extract_all_metadata.                                                   *)
(*                                                                         *)
(* Python values are tagged records [t |-> type, v |-> payload]; a Python  *)
(* str is a sequence of one-character strings, so that split, strip,       *)
(* upper and float parsing are computed and not assumed.  Coordinates are  *)
(* kept exactly, in units of 1/3600 degree (arc seconds): the code's       *)
(* float(d) + float(m)/60 + float(s)/3600 is d*3600 + m*60 + s here.       *)
(***************************************************************************)
EXTENDS Integers, Sequences, FiniteSets, TLC

VARIABLES
    pc,              \* position of extract_all_metadata (stage reached)
    outcome,         \* "running" | "returned" | "raised"
    file,            \* the file at image_path: [kind, len, seed]
    metadata,        \* the record under construction / returned
    handles,         \* file handles currently open
    hash_functions,  \* calculate_file_hashes: the digest accumulators
    fpos,            \* calculate_file_hashes: read position of f
    reads,           \* calculate_file_hashes: number of f.read calls made
    img,             \* the opened PIL image
    exif_data,       \* extract_all_metadata: decoded high-level EXIF tags
    gui              \* MetadataExtractorApp: the window's fields and widgets

vars == <<pc, outcome, file, metadata, handles, hash_functions, fpos, reads,
          img, exif_data, gui>>

(***************************************************************************)
(* Bounds of the model.                                                    *)
(***************************************************************************)
\* largest file of the hashing specification, in whole chunks
MaxChunks == 2
\* number of distinct file contents per length
MaxSeed == 2
\* number of analyses one window runs
MaxAnalyses == 6

(***************************************************************************)
(* Python values.                                                          *)
(***************************************************************************)
Str(s) == [t |-> "str", v |-> s]
Num(n) == [t |-> "num", v |-> n]
Tup(s) == [t |-> "tuple", v |-> s]
Dict(d) == [t |-> "dict", v |-> d]
Bytes(s) == [t |-> "bytes", v |-> s]
NoneV == [t |-> "none", v |-> 0]

\* a dict with no key
EmptyDict == [x \in {} |-> NoneV]

Put(m, k, val) == [x \in DOMAIN m \cup {k} |-> IF x = k THEN val ELSE m[x]]

Get(d, k) == IF k \in DOMAIN d THEN d[k] ELSE NoneV

Min(a, b) == IF a < b THEN a ELSE b

\* exceptions: the class and str(e)
Exc(type, msg) == [type |-> type, msg |-> msg]

\* every exception class the modelled code can raise; all derive from Exception
ExceptionClasses ==
    {"FileNotFoundError", "PermissionError", "OSError",
     "UnidentifiedImageError", "SyntaxError",
     "KeyError", "TypeError", "ValueError", "IndexError"}

(***************************************************************************)
(* calculate_file_hashes (lines 27-51).                                    *)
(***************************************************************************)
ChunkSize == 8192

Algs == {"MD5", "SHA1", "SHA256", "SHA512", "BLAKE2b", "BLAKE2s"}

\* the byte at offset i (from 0) of file f
ByteAt(f, i) == (f.seed * 101 + i * 31 + (i \div ChunkSize) * 7) % 256

\* A digest is modelled as a polynomial hash modulo a prime, one multiplier
\* per algorithm: it depends on every byte, on the order and on the length.
Mult(alg) ==
    CASE alg = "MD5" -> 31
      [] alg = "SHA1" -> 37
      [] alg = "SHA256" -> 41
      [] alg = "SHA512" -> 43
      [] alg = "BLAKE2b" -> 47
      [] alg = "BLAKE2s" -> 53

\* <<p, h>> for the bytes lo..hi-1 of f: feeding them to a state s gives
\* (s * p + h) % 32749
RECURSIVE RangeHash(_, _, _, _)
RangeHash(alg, f, lo, hi) ==
    IF hi <= lo THEN <<1, 0>>
    ELSE IF hi = lo + 1 THEN <<Mult(alg), ByteAt(f, lo) + 1>>
    ELSE LET mid == (lo + hi) \div 2
             a == RangeHash(alg, f, lo, mid)
             b == RangeHash(alg, f, mid, hi)
         IN <<(a[1] * b[1]) % 32749, (a[2] * b[1] + b[2]) % 32749>>

\* hashlib.<alg>(): h is the digest state, fed the chunks given to update
HashNew(alg) == [h |-> Mult(alg), fed |-> <<>>]

\* hash_func.update(chunk), chunk = the bytes off..off+len-1 of f
HashUpdate(alg, acc, f, chunk) ==
    LET r == RangeHash(alg, f, chunk.off, chunk.off + chunk.len)
    IN [h |-> (acc.h * r[1] + r[2]) % 32749, fed |-> Append(acc.fed, chunk)]

\* hash_func.hexdigest()
HexDigest(acc) == [kind |-> "hex", v |-> acc.h]

\* f.read(n) at position pos
Read(f, pos, n) == [off |-> pos, len |-> Min(n, f.len - pos)]

\* lines 45-46
HashesOnSuccess(accs) == [name \in Algs |-> HexDigest(accs[name])]

\* an error mapping that names the first algorithm only
HashesOnErrorFirstOnly(e) == [name \in {"MD5"} |-> [kind |-> "error", v |-> e.msg]]

\* lines 47-49
HashesOnError(e) == [name \in Algs |-> [kind |-> "error", v |-> e.msg]]

(***************************************************************************)
(* extract_all_metadata: the record and the handler (lines 196-200,        *)
(* 454-459).                                                               *)
(***************************************************************************)
InitialMetadata ==
    [k \in {"Warnings", "File Integrity", "Forensic Analysis"} |->
        IF k = "Warnings" THEN [kind |-> "list", v |-> <<>>]
        ELSE [kind |-> "fields", v |-> EmptyDict]]

Fields(f) == [kind |-> "fields", v |-> f]
Placeholder(text) == [kind |-> "placeholder", v |-> text]

\* a handler that names the I/O errors only
CatchesOSErrorOnly(e) == e.type \in {"FileNotFoundError", "PermissionError", "OSError"}

\* except Exception as e
Catches(e) == e.type \in ExceptionClasses

\* a handler that starts a fresh record for the error
CriticalErrorAlone(m, e, where) ==
    [k \in {"Critical Error", "Stack Trace"} |->
        IF k = "Critical Error" THEN [kind |-> "text", v |-> e.msg]
        ELSE [kind |-> "trace", v |-> [type |-> e.type, where |-> where]]]

\* a handler that records the message without the trace
CriticalErrorWithoutTrace(m, e, where) ==
    Put(m, "Critical Error", [kind |-> "text", v |-> e.msg])

\* lines 455-457: where is the raising line the trace names
CriticalError(m, e, where) ==
    Put(Put(m, "Critical Error", [kind |-> "text", v |-> e.msg]),
        "Stack Trace", [kind |-> "trace", v |-> [type |-> e.type, where |-> where]])


(***************************************************************************)
(* Python str operations used by the converters.                           *)
(***************************************************************************)
Ok(val) == [ok |-> TRUE, val |-> val, exc |-> ""]
Raise(type) == [ok |-> FALSE, val |-> 0, exc |-> type]

Digits == <<"0", "1", "2", "3", "4", "5", "6", "7", "8", "9">>
LowerLetters == <<"a", "b", "c", "d", "e", "f", "g", "h", "i", "j", "k", "l", "m",
                  "n", "o", "p", "q", "r", "s", "t", "u", "v", "w", "x", "y", "z">>
UpperLetters == <<"A", "B", "C", "D", "E", "F", "G", "H", "I", "J", "K", "L", "M",
                  "N", "O", "P", "Q", "R", "S", "T", "U", "V", "W", "X", "Y", "Z">>

IsDigit(c) == \E i \in 1..10 : Digits[i] = c
DigitVal(c) == (CHOOSE i \in 1..10 : Digits[i] = c) - 1
IsSpace(c) == c = " "

\* str.upper()
UpperChar(c) ==
    IF \E i \in 1..26 : LowerLetters[i] = c
    THEN UpperLetters[CHOOSE i \in 1..26 : LowerLetters[i] = c]
    ELSE c
Upper(s) == [i \in 1..Len(s) |-> UpperChar(s[i])]

\* str.strip()
RECURSIVE LStrip(_)
LStrip(s) == IF Len(s) > 0 /\ IsSpace(s[1]) THEN LStrip(Tail(s)) ELSE s
RECURSIVE RStrip(_)
RStrip(s) ==
    IF Len(s) > 0 /\ IsSpace(s[Len(s)]) THEN RStrip(SubSeq(s, 1, Len(s) - 1)) ELSE s
Strip(s) == RStrip(LStrip(s))

\* str.split(sep)
RECURSIVE Split(_, _)
Split(s, sep) ==
    IF \A i \in 1..Len(s) : s[i] # sep THEN <<s>>
    ELSE LET k == CHOOSE i \in 1..Len(s) :
                      s[i] = sep /\ \A j \in 1..(i - 1) : s[j] # sep
         IN <<SubSeq(s, 1, k - 1)>> \o Split(SubSeq(s, k + 1, Len(s)), sep)

RECURSIVE DigitsVal(_, _)
DigitsVal(s, acc) ==
    IF Len(s) = 0 THEN acc ELSE DigitsVal(Tail(s), acc * 10 + DigitVal(s[1]))

IsNumeral(s) == Len(s) > 0 /\ \A i \in 1..Len(s) : IsDigit(s[i])

ParseBody(negative, body) ==
    IF IsNumeral(body)
    THEN Ok((IF negative THEN 0 - 1 ELSE 1) * DigitsVal(body, 0))
    ELSE Raise("ValueError")

ParseSigned(t) ==
    ParseBody(Len(t) > 0 /\ t[1] = "-",
              IF Len(t) > 0 /\ t[1] \in {"-", "+"} THEN Tail(t) ELSE t)

\* float(<str>): surrounding blanks, a sign and decimal digits; the input
\* alphabet of the model holds no ".", "e" or "_", so every other text is
\* one Python rejects too
ParseFloat(s) == ParseSigned(Strip(s))

\* float(x)
FloatOf(x) ==
    CASE x.t = "num" -> Ok(x.v)
      [] x.t = "str" -> ParseFloat(x.v)
      [] OTHER -> Raise("TypeError")

RECURSIVE NatStr(_)
NatStr(n) == IF n < 10 THEN <<Digits[n + 1]>> ELSE NatStr(n \div 10) \o <<Digits[(n % 10) + 1]>>

\* str(x); a container prints as its bracket pair around its items
RECURSIVE PyStr(_)
RECURSIVE PyStrItems(_)
PyStrItems(s) ==
    IF Len(s) = 0 THEN <<>>
    ELSE PyStr(s[1]) \o (IF Len(s) > 1 THEN <<",", " ">> ELSE <<>>) \o PyStrItems(Tail(s))
PyStr(x) ==
    CASE x.t = "str" -> x.v
      [] x.t = "none" -> <<"N", "o", "n", "e">>
      [] x.t = "num" -> IF x.v < 0 THEN <<"-">> \o NatStr(0 - x.v) ELSE NatStr(x.v)
      [] x.t = "tuple" -> <<"(">> \o PyStrItems(x.v) \o <<")">>
      [] OTHER -> <<"{", "}">>

(***************************************************************************)
(* get_human_readable_size (lines 97-105) and the stat stage.              *)
(***************************************************************************)
SizeUnits == <<<<"B">>, <<"K", "B">>, <<"M", "B">>, <<"G", "B">>, <<"T", "B">>, <<"P", "B">>>>

\* "{x:.2f}" of num/den >= 0; num/den is a binary fraction, which a float
\* holds exactly, so the only ties are exact ones and they go to the even digit
Fixed2(num, den) ==
    LET q == (num * 100) \div den
        r == (num * 100) % den
        up == 2 * r > den \/ (2 * r = den /\ q % 2 = 1)
        c == IF up THEN q + 1 ELSE q
    IN NatStr(c \div 100) \o <<".">>
          \o (IF c % 100 < 10 THEN <<"0">> ELSE <<>>) \o NatStr(c % 100)

\* 1024^e
RECURSIVE Scale(_)
Scale(e) == IF e = 0 THEN 1 ELSE 1024 * Scale(e - 1)

\* lines 99-105: the loop at its k-th unit, size_bytes being n * 1024^e / den
\* (a count too large for one integer is kept as n * 1024^e with n > 0; a
\* division by 1024.0 is exact, it takes one from e or multiplies den)
RECURSIVE SizeLoop(_, _, _, _)
SizeLoop(n, e, den, k) ==
    IF k > Len(SizeUnits) THEN Fixed2(n * Scale(e), den) \o <<" ", "P", "B">>
    ELSE IF e = 0 /\ n < 1024 * den
    THEN (IF k = 1 THEN NatStr(n) ELSE Fixed2(n, den)) \o <<" ">> \o SizeUnits[k]
    ELSE IF e > 0 THEN SizeLoop(n, e - 1, den, k + 1)
    ELSE SizeLoop(n, e, den * 1024, k + 1)

\* a loop without the separate rendering of whole bytes
SizeAlwaysTwoDecimals(n, e) ==
    IF e = 0 /\ n < 1024 THEN Fixed2(n, 1) \o <<" ", "B">>
    ELSE SizeLoop(n, e, 1, 1)

\* lines 97-105, for size_bytes = n * 1024^e
get_human_readable_size(n, e) == SizeLoop(n, e, 1, 1)

\* lines 204-216
FileInformation(f) ==
    [k \in {"File Name", "File Path", "File Extension", "File Size", "Created",
            "Modified", "Accessed", "File Permissions", "Inode Number",
            "Device ID"} |->
        CASE k = "File Size" -> Str(get_human_readable_size(f.len, f.exp))
          [] k \in {"Inode Number", "Device ID"} -> Num(f.seed)
          [] OTHER -> Str(<<"s", "t", "a", "t">>)]

(***************************************************************************)
(* convert_gps_coordinates (lines 53-81).                                  *)
(***************************************************************************)
Elem(s, i) == IF i <= Len(s) THEN s[i] ELSE NoneV

\* line 64 (and 68): float(c[0]) + float(c[1])/60 + float(c[2])/3600 of a
\* sequence of n items whose float() results are fl, evaluated left to right
DmsOf(n, fl) ==
    IF n < 1 THEN Raise("IndexError")
    ELSE IF ~fl[1].ok THEN fl[1]
    ELSE IF n < 2 THEN Raise("IndexError")
    ELSE IF ~fl[2].ok THEN fl[2]
    ELSE IF n < 3 THEN Raise("IndexError")
    ELSE IF ~fl[3].ok THEN fl[3]
    ELSE Ok(fl[1].val * 3600 + fl[2].val * 60 + fl[3].val)

DmsOfSeq(s) == DmsOf(Len(s), [i \in 1..3 |-> FloatOf(Elem(s, i))])

\* line 69: float(coord)
Whole(r) == IF r.ok THEN Ok(r.val * 3600) ELSE r

\* lines 63-69, parts = coord.split(',') of a str
ConvertWith(coord, parts) ==
    IF coord.t = "tuple" \/ (coord.t = "str" /\ Len(parts) = 3)
    THEN DmsOfSeq(IF coord.t = "tuple" THEN coord.v
                  ELSE [i \in 1..3 |-> Str(parts[i])])
    ELSE Whole(FloatOf(coord))

\* lines 62-69; the result is in arc seconds
convert_coord(coord) ==
    ConvertWith(coord, IF coord.t = "str" THEN Split(coord.v, ",") ELSE <<>>)

\* line 80: except (KeyError, TypeError, ValueError, IndexError)
CaughtByConvert == {"KeyError", "TypeError", "ValueError", "IndexError"}

\* a comparison of the reference without .upper()
HemisphereCaseSensitive(value, ref, positive) ==
    IF PyStr(ref) # <<positive>> THEN 0 - value ELSE value

\* lines 72-73, 76-77: the sign applied for a reference tag
Hemisphere(value, ref, positive) ==
    IF Upper(PyStr(ref)) # <<positive>> THEN 0 - value ELSE value

GpsKeys == {"GPSLatitude", "GPSLatitudeRef", "GPSLongitude", "GPSLongitudeRef"}

\* lines 71-81, c the results of convert_coord for latitude and longitude
ConvertResult(gps_data, c) ==
    LET exc == IF ~(GpsKeys \subseteq DOMAIN gps_data) THEN "KeyError"
               ELSE IF ~c["GPSLatitude"].ok THEN c["GPSLatitude"].exc
               ELSE IF ~c["GPSLongitude"].ok THEN c["GPSLongitude"].exc
               ELSE ""
    IN IF exc = ""
       THEN [t |-> "return", exc |-> "",
             lat |-> Num(Hemisphere(c["GPSLatitude"].val,
                                    gps_data["GPSLatitudeRef"], "N")),
             lon |-> Num(Hemisphere(c["GPSLongitude"].val,
                                    gps_data["GPSLongitudeRef"], "E"))]
       ELSE IF exc \in CaughtByConvert
       THEN [t |-> "return", exc |-> "", lat |-> NoneV, lon |-> NoneV]
       ELSE [t |-> "raise", exc |-> exc, lat |-> NoneV, lon |-> NoneV]

\* lines 55-81: [t |-> "return", lat, lon] or [t |-> "raise", exc]
convert_gps_coordinates(gps_data) ==
    ConvertResult(gps_data,
                  [k \in {"GPSLatitude", "GPSLongitude"} |->
                      convert_coord(Get(gps_data, k))])

(***************************************************************************)
(* extract_all_metadata: GPS stage (lines 262-306).                        *)
(***************************************************************************)
\* a legacy branch that keeps the four coordinate tags only
GpsInfoDictFourTags(gps_data) ==
    IF gps_data.t = "dict" THEN Ok(gps_data.v)
    ELSE IF gps_data.t = "tuple"
    THEN IF Len(gps_data.v) < 5 THEN Raise("IndexError")
         ELSE Ok([k \in {1, 2, 3, 4} |-> gps_data.v[k + 1]])
    ELSE Raise("TypeError")

\* lines 266-282: the GPS tag mapping of either shape of GPSInfo
GpsInfoDict(gps_data) ==
    IF gps_data.t = "dict" THEN Ok(gps_data.v)
    ELSE IF gps_data.t = "tuple"
    THEN LET s == gps_data.v
             n == Len(s)
         IN IF n < 5 THEN Raise("IndexError")
            ELSE Ok([k \in {1, 2, 3, 4}
                          \cup (IF n > 5 THEN {5} ELSE {})
                          \cup (IF n > 6 THEN {6} ELSE {})
                          \cup (IF n > 16 THEN {16} ELSE {}) |-> s[k + 1]])
    ELSE Raise("TypeError")

GpsWarning == "GPS data processing error"

\* lines 284-289: the mapping handed to convert_gps_coordinates
GpsArgument(gps_info_dict) ==
    [k \in GpsKeys |->
        CASE k = "GPSLatitude" -> Get(gps_info_dict, 2)
          [] k = "GPSLatitudeRef" -> Get(gps_info_dict, 1)
          [] k = "GPSLongitude" -> Get(gps_info_dict, 4)
          [] k = "GPSLongitudeRef" -> Get(gps_info_dict, 3)]

\* "{x:.6f}" of a coordinate of a arc seconds, a/3600 degrees; a negated
\* zero prints without its sign here
Deg6(a) ==
    LET n == IF a < 0 THEN 0 - a ELSE a
        q == (n * 2500) \div 9
        micro == IF 2 * ((n * 2500) % 9) >= 9 THEN q + 1 ELSE q
        frac == NatStr(micro % 1000000)
    IN (IF a < 0 THEN <<"-">> ELSE <<>>) \o NatStr(micro \div 1000000) \o <<".">>
          \o [i \in 1..(6 - Len(frac)) |-> "0"] \o frac

\* lines 291-302, r = (lat, lon) and text the str() of the optional tags; the
\* links print the coordinates to six decimals as well
GpsFields(gps_info_dict, r, text) ==
    IF r.lat.t # "none" /\ r.lon.t # "none"
    THEN [k \in {"Latitude", "Longitude", "Google Maps Link", "OpenStreetMap Link"}
                \cup (IF 5 \in DOMAIN gps_info_dict THEN {"Altitude"} ELSE {})
                \cup (IF 6 \in DOMAIN gps_info_dict THEN {"GPS Timestamp"} ELSE {})
                \cup (IF 16 \in DOMAIN gps_info_dict THEN {"Direction"} ELSE {}) |->
            CASE k = "Latitude" -> Str(Deg6(r.lat.v) \o <<"\\u00b0">>)
              [] k = "Longitude" -> Str(Deg6(r.lon.v) \o <<"\\u00b0">>)
              [] k = "Google Maps Link" ->
                    Str(<<"https://maps.google.com/?q=">> \o Deg6(r.lat.v)
                           \o <<",">> \o Deg6(r.lon.v))
              [] k = "OpenStreetMap Link" ->
                    Str(<<"https://www.openstreetmap.org/?mlat=">> \o Deg6(r.lat.v)
                           \o <<"&mlon=">> \o Deg6(r.lon.v))
              [] k = "Altitude" -> Str(text[5] \o <<" meters">>)
              [] k = "GPS Timestamp" -> Str(text[6])
              [] k = "Direction" -> Str(text[16] \o <<"\\u00b0">>)]
    ELSE EmptyDict

\* lines 284-304 for the mapping d (or the exception of building it)
GpsConverted(d, r, warnings) ==
    IF r.t = "raise"
    THEN [gps_info |-> EmptyDict, warnings |-> Append(warnings, GpsWarning)]
    ELSE [gps_info |-> GpsFields(d, r, [k \in DOMAIN d \cap {5, 6, 16} |-> PyStr(d[k])]),
          warnings |-> warnings]

GpsOfDict(d, warnings) ==
    IF ~d.ok
    THEN [gps_info |-> EmptyDict, warnings |-> Append(warnings, GpsWarning)]
    ELSE GpsConverted(d.val, convert_gps_coordinates(GpsArgument(d.val)), warnings)

\* lines 262-304: gps_info and the warnings after the stage
GpsStage(exif, warnings) ==
    IF "GPSInfo" \notin DOMAIN exif
    THEN [gps_info |-> EmptyDict, warnings |-> warnings]
    ELSE GpsOfDict(GpsInfoDict(exif["GPSInfo"]), warnings)

\* line 306
GpsCategory(gps_info) ==
    IF DOMAIN gps_info # {} THEN Fields(gps_info) ELSE Placeholder("No GPS data found")

(***************************************************************************)
(* format_exif_time (lines 83-95).                                         *)
(***************************************************************************)
MonthNames ==
    <<"January", "February", "March", "April", "May", "June", "July", "August", "September", "October", "November", "December">>

NonEmpty(parts) == SelectSeq(parts, LAMBDA q : Len(q) > 0)

DaysIn(y, m) ==
    IF m \in {4, 6, 9, 11} THEN 30
    ELSE IF m = 2
    THEN (IF (y % 4 = 0 /\ y % 100 # 0) \/ y % 400 = 0 THEN 29 ELSE 28)
    ELSE 31

Pad2(n) == IF n < 10 THEN <<"0">> \o NatStr(n) ELSE NatStr(n)

\* datetime.strptime(s, "%Y<sep>%m<sep>%d %H:%M:%S"): the fields, or ValueError
StrpTime(s, sep) ==
    LET halves == NonEmpty(Split(s, " "))
        date == Split(halves[1], sep)
        time == Split(halves[2], ":")
        one(q, lo, hi) ==
            IsNumeral(q) /\ Len(q) <= 2 /\ DigitsVal(q, 0) >= lo /\ DigitsVal(q, 0) <= hi
    IN IF /\ Len(halves) = 2
          /\ Len(date) = 3
          /\ Len(time) = 3
          /\ IsNumeral(date[1]) /\ Len(date[1]) = 4 /\ DigitsVal(date[1], 0) >= 1
          /\ one(date[2], 1, 12)
          /\ one(date[3], 1, DaysIn(DigitsVal(date[1], 0), DigitsVal(date[2], 0)))
          /\ one(time[1], 0, 23)
          /\ one(time[2], 0, 59)
          /\ one(time[3], 0, 59)
       THEN Ok(<<DigitsVal(date[1], 0), DigitsVal(date[2], 0), DigitsVal(date[3], 0),
                 DigitsVal(time[1], 0), DigitsVal(time[2], 0), DigitsVal(time[3], 0)>>)
       ELSE Raise("ValueError")

\* strftime("%B %d, %Y at %H:%M:%S"); the month name is one item of the text
StrfTime(d) ==
    <<MonthNames[d[2]], " ">> \o Pad2(d[3]) \o <<",", " ">> \o NatStr(d[1])
        \o <<" ", "a", "t", " ">> \o Pad2(d[4]) \o <<":">> \o Pad2(d[5])
        \o <<":">> \o Pad2(d[6])

\* lines 85-95
format_exif_time(time_str) ==
    LET s == Strip(PyStr(time_str))
        colon == StrpTime(s, ":")
        dash == StrpTime(s, "-")
        slash == StrpTime(s, "/")
    IN IF colon.ok THEN Str(StrfTime(colon.val))
       ELSE IF dash.ok THEN Str(StrfTime(dash.val))
       ELSE IF slash.ok THEN Str(StrfTime(slash.val))
       ELSE Str(s)

(***************************************************************************)
(* extract_phone_info (lines 107-129).                                     *)
(***************************************************************************)
\* phone_db in insertion order; each pattern is
\* lit sep* ( prefix \s* tail1+ tail2* ), matched with re.IGNORECASE
phone_db ==
    <<
      [brand |-> <<"i", "P", "h", "o", "n", "e">>, lit |-> <<"i", "P", "h", "o", "n", "e">>, sep |-> "ws",
       prefix |-> <<>>, tail1 |-> "digit", tail2 |-> "alpha"],
      [brand |-> <<"i", "P", "a", "d">>, lit |-> <<"i", "P", "a", "d">>, sep |-> "ws",
       prefix |-> <<>>, tail1 |-> "digit", tail2 |-> "alpha"],
      [brand |-> <<"S", "a", "m", "s", "u", "n", "g">>, lit |-> <<"S", "a", "m", "s", "u", "n", "g">>, sep |-> "dashws",
       prefix |-> <<"G", "a", "l", "a", "x", "y">>, tail1 |-> "alnum", tail2 |-> "none"],
      [brand |-> <<"H", "u", "a", "w", "e", "i">>, lit |-> <<"H", "u", "a", "w", "e", "i">>, sep |-> "dashws",
       prefix |-> <<>>, tail1 |-> "alnum", tail2 |-> "none"],
      [brand |-> <<"X", "i", "a", "o", "m", "i">>, lit |-> <<"X", "i", "a", "o", "m", "i">>, sep |-> "dashws",
       prefix |-> <<"M", "i">>, tail1 |-> "alnum", tail2 |-> "none"],
      [brand |-> <<"G", "o", "o", "g", "l", "e">>, lit |-> <<"G", "o", "o", "g", "l", "e">>, sep |-> "dashws",
       prefix |-> <<"P", "i", "x", "e", "l">>, tail1 |-> "digit", tail2 |-> "none"],
      [brand |-> <<"O", "n", "e", "P", "l", "u", "s">>, lit |-> <<"O", "n", "e", "P", "l", "u", "s">>, sep |-> "dashws",
       prefix |-> <<>>, tail1 |-> "digit", tail2 |-> "alpha"],
      [brand |-> <<"S", "o", "n", "y">>, lit |-> <<"S", "o", "n", "y">>, sep |-> "dashws",
       prefix |-> <<"X", "p", "e", "r", "i", "a">>, tail1 |-> "alnum", tail2 |-> "none"],
      [brand |-> <<"L", "G">>, lit |-> <<"L", "G">>, sep |-> "dashws",
       prefix |-> <<>>, tail1 |-> "alnum", tail2 |-> "none"],
      [brand |-> <<"M", "o", "t", "o", "r", "o", "l", "a">>, lit |-> <<"M", "o", "t", "o">>, sep |-> "dashws",
       prefix |-> <<>>, tail1 |-> "alnum", tail2 |-> "none"]
    >>

InClass(c, cls) ==
    CASE cls = "digit" -> IsDigit(c)
      [] cls = "alpha" -> UpperChar(c) # c \/ (\E i \in 1..26 : UpperLetters[i] = c)
      [] cls = "alnum" -> IsDigit(c) \/ UpperChar(c) # c
                            \/ (\E i \in 1..26 : UpperLetters[i] = c)
      [] cls = "ws" -> IsSpace(c)
      [] cls = "dashws" -> IsSpace(c) \/ c = "-"
      [] OTHER -> FALSE

\* the index after the literal matched at i, ignoring case; 0 if it does not match
MatchLit(s, i, lit) ==
    IF i + Len(lit) - 1 <= Len(s)
       /\ \A k \in 1..Len(lit) : UpperChar(s[i + k - 1]) = UpperChar(lit[k])
    THEN i + Len(lit) ELSE 0

\* the index after the longest run of cls starting at i
RECURSIVE SkipClass(_, _, _)
SkipClass(s, i, cls) ==
    IF i <= Len(s) /\ InClass(s[i], cls) THEN SkipClass(s, i + 1, cls) ELSE i

\* re.match of pattern p at index i: the captured group, or <<>> (no match; a
\* group is never empty)
PatternAt(s, i, p) ==
    LET j1 == MatchLit(s, i, p.lit)
        j2 == SkipClass(s, j1, p.sep)
        j3 == MatchLit(s, j2, p.prefix)
        j4 == IF Len(p.prefix) > 0 THEN SkipClass(s, j3, "ws") ELSE j3
        j5 == SkipClass(s, j4, p.tail1)
        j6 == SkipClass(s, j5, p.tail2)
    IN IF j1 = 0 THEN <<>>
       ELSE IF j3 = 0 THEN <<>>
       ELSE IF j5 = j4 THEN <<>>
       ELSE SubSeq(s, j2, j6 - 1)

\* the leftmost match among the matches m at each index
FirstMatch(m) ==
    IF \E i \in 1..Len(m) : m[i] # <<>>
    THEN m[CHOOSE i \in 1..Len(m) : m[i] # <<>> /\ \A j \in 1..(i - 1) : m[j] = <<>>]
    ELSE <<>>

\* re.search(pattern, model_str, re.IGNORECASE).group(1), or <<>>
Search(s, p) == FirstMatch([i \in 1..Len(s) |-> PatternAt(s, i, p)])

\* a loop that keeps the last pattern that matched
LastBrand(s, found) ==
    LET hits == {k \in 1..Len(phone_db) : found[k] # <<>>}
    IN IF hits = {} THEN [brand |-> <<>>, model |-> s]
       ELSE LET k == CHOOSE x \in hits : \A y \in hits : x >= y
            IN [brand |-> phone_db[k].brand, model |-> found[k]]

\* lines 123-129, found[k] the search result of the k-th pattern
FirstBrand(s, found) ==
    LET hits == {k \in 1..Len(phone_db) : found[k] # <<>>}
    IN IF hits = {} THEN [brand |-> <<>>, model |-> s]
       ELSE LET k == CHOOSE x \in hits : \A y \in hits : x <= y
            IN [brand |-> phone_db[k].brand, model |-> found[k]]

PhoneOf(s) == FirstBrand(s, [k \in 1..Len(phone_db) |-> Search(s, phone_db[k])])

\* lines 122-129: [brand, model]; brand <<>> stands for None
extract_phone_info(model_str) == PhoneOf(PyStr(model_str))

\* str.lower()
LowerChar(c) ==
    IF \E i \in 1..26 : UpperLetters[i] = c
    THEN LowerLetters[CHOOSE i \in 1..26 : UpperLetters[i] = c]
    ELSE c
Lower(s) == [i \in 1..Len(s) |-> LowerChar(s[i])]

\* a lookup that compares the brand without .lower()
OperatingSystemCaseSensitive(phone_brand) ==
    IF phone_brand \in {<<"i", "p", "h", "o", "n", "e">>, <<"i", "p", "a", "d">>}
    THEN "iOS"
    ELSE IF phone_brand \in {<<"s", "o", "n", "y">>, <<"l", "g">>}
    THEN "Android"
    ELSE "Unknown"

\* lines 334-340
OperatingSystem(phone_brand) ==
    IF Lower(phone_brand) \in {<<"i", "p", "h", "o", "n", "e">>, <<"i", "p", "a", "d">>}
    THEN "iOS"
    ELSE IF Lower(phone_brand) \in
            {<<"s", "a", "m", "s", "u", "n", "g">>,
             <<"h", "u", "a", "w", "e", "i">>,
             <<"x", "i", "a", "o", "m", "i">>,
             <<"g", "o", "o", "g", "l", "e">>,
             <<"o", "n", "e", "p", "l", "u", "s">>,
             <<"s", "o", "n", "y">>,
             <<"l", "g">>,
             <<"m", "o", "t", "o", "r", "o", "l", "a">>}
    THEN "Android"
    ELSE "Unknown"

(***************************************************************************)
(* extract_all_metadata: the stages' values.                               *)
(***************************************************************************)
\* an opened PIL image
\* info_len is len(img.info), compression is img.info['compression'] (NoneV
\* when img.info has no such key)
Img(size, info_len, compression) ==
    [t |-> "image",
     v |-> [format |-> IF compression.t = "none" THEN "JPEG" ELSE "TIFF",
            size |-> size, mode |-> "RGB", info_len |-> info_len,
            compression |-> compression]]

\* an assignment of the category where the code updates two of its items
WithFileTypeOnly(m, i) ==
    Put(m, "File Information",
        Fields([k \in {"File Type", "MIME Type"} |-> Str(<<i.v.format>>)]))

\* lines 223-224
WithFileType(m, i) ==
    Put(m, "File Information",
        Fields(Put(Put(m["File Information"].v, "File Type", Str(<<i.v.format>>)),
                   "MIME Type", Str(<<"image/", i.v.format>>))))

\* lines 227-238
ImageDimensions(i) ==
    [k \in {"Width", "Height", "Megapixels", "Aspect Ratio", "Color Mode",
            "Bit Depth", "Is Animated", "Has Transparency", "Compression"} |->
        CASE k = "Width" -> Str(NatStr(i.v.size[1]) \o <<" ", "pixels">>)
          [] k = "Height" -> Str(NatStr(i.v.size[2]) \o <<" ", "pixels">>)
          [] k = "Megapixels" ->
                Str(Fixed2(i.v.size[1] * i.v.size[2], 1000000) \o <<" ", "MP">>)
          [] k = "Aspect Ratio" ->
                Str(Fixed2(i.v.size[1], i.v.size[2]) \o <<":", "1">>)
          [] k = "Bit Depth" -> Num(8)
          [] k = "Is Animated" -> [t |-> "bool", v |-> FALSE]
          [] k = "Color Mode" -> Str(<<i.v.mode>>)
          [] k = "Has Transparency" ->
                Str(<<IF i.v.mode \in {"RGBA", "LA"} THEN "Yes" ELSE "No">>)
          [] k = "Compression" ->
                IF i.v.compression.t = "none" THEN Str(<<"Unknown">>)
                ELSE i.v.compression]

\* a scan that looks for the steganography markers before the editing tool
StegMarkersFirst(f, readable) ==
    IF ~readable THEN "Steganography analysis failed"
    ELSE IF "Steg" \in f.marks \/ "steg" \in f.marks
    THEN "Possible steganography markers found"
    ELSE IF "Photoshop" \in f.marks THEN "Potential Photoshop editing detected"
    ELSE IF "LSB" \in f.marks \/ "lsb" \in f.marks
    THEN "Possible LSB steganography indicators"
    ELSE "No obvious steganography markers detected"

\* lines 141-154; marks are the signatures that occur in the file's bytes,
\* readable is FALSE when open or read raises
analyze_steganography(f, readable) ==
    IF ~readable THEN "Steganography analysis failed"
    ELSE IF "Photoshop" \in f.marks THEN "Potential Photoshop editing detected"
    ELSE IF "Steg" \in f.marks \/ "steg" \in f.marks
    THEN "Possible steganography markers found"
    ELSE IF "LSB" \in f.marks \/ "lsb" \in f.marks
    THEN "Possible LSB steganography indicators"
    ELSE "No obvious steganography markers detected"

\* lines 156-185, without the optional recompression check (skipped on any
\* failure, lines 179-180): the list of indicators, or the text for none
detect_tampering_indicators(i) ==
    LET blocks == IF i.v.info_len > 10
                  THEN <<Str(<<"Multiple metadata blocks detected">>)>> ELSE <<>>
        comp == IF i.v.compression.t # "none"
                   /\ i.v.compression.v \notin {<<"jpeg">>, <<"raw">>}
                THEN <<Str(<<"Unusual compression: ">> \o PyStr(i.v.compression))>>
                ELSE <<>>
    IN IF Len(blocks \o comp) > 0 THEN [t |-> "list", v |-> blocks \o comp]
       ELSE Str(<<"No obvious tampering indicators detected">>)

\* lines 241-243
ForensicAnalysis(f, i, readable) ==
    [k \in {"Thumbnail Present", "Steganography Indicators", "Tampering Indicators"} |->
        CASE k = "Thumbnail Present" -> Str(<<IF f.kind = "image" THEN "Yes" ELSE "No">>)
          [] k = "Steganography Indicators" -> Str(<<analyze_steganography(f, readable)>>)
          [] k = "Tampering Indicators" -> detect_tampering_indicators(i)]

\* ExifTags.TAGS.get(tag_id, tag_id), line 249
TagName(id) ==
    CASE id = 271 -> "Make"
      [] id = 272 -> "Model"
      [] id = 305 -> "Software"
      [] id = 306 -> "DateTime"
      [] id = 36867 -> "DateTimeOriginal"
      [] id = 36868 -> "DateTimeDigitized"
      [] id = 37521 -> "SubSecTimeOriginal"
      [] id = 36864 -> "ExifVersion"
      [] id = 42033 -> "BodySerialNumber"
      [] id = 33434 -> "ExposureTime"
      [] id = 33437 -> "FNumber"
      [] id = 34855 -> "ISOSpeedRatings"
      [] id = 37386 -> "FocalLength"
      [] id = 37385 -> "Flash"
      [] id = 34853 -> "GPSInfo"

\* lines 252-256: bytes.decode('utf-8', errors='replace')
DecodeValue(value) ==
    IF value.t = "bytes"
    THEN Str([i \in 1..Len(value.v) |->
                 IF value.v[i] = "\\xff" THEN "\\ufffd" ELSE value.v[i]])
    ELSE value

\* lines 246-257: exif_data of the raw tag-id mapping of img._getexif()
DecodeExif(raw) ==
    [name \in {TagName(id) : id \in DOMAIN raw} |->
        DecodeValue(raw[CHOOSE id \in DOMAIN raw : TagName(id) = name])]

\* lines 309-317
DateInfo(exif) ==
    [k \in (IF "DateTime" \in DOMAIN exif THEN {"Capture Time"} ELSE {})
           \cup (IF "DateTimeOriginal" \in DOMAIN exif
                 THEN {"Original Capture Time"} ELSE {})
           \cup (IF "DateTimeDigitized" \in DOMAIN exif
                 THEN {"Digitization Time"} ELSE {})
           \cup (IF "SubSecTimeOriginal" \in DOMAIN exif
                 THEN {"Subsecond Time"} ELSE {}) |->
        CASE k = "Capture Time" -> format_exif_time(exif["DateTime"])
          [] k = "Original Capture Time" -> format_exif_time(exif["DateTimeOriginal"])
          [] k = "Digitization Time" -> format_exif_time(exif["DateTimeDigitized"])
          [] k = "Subsecond Time" -> exif["SubSecTimeOriginal"]]

\* line 319
DateCategory(date_info) ==
    IF DOMAIN date_info # {} THEN Fields(date_info)
    ELSE Placeholder("No date/time metadata found")

\* camera fields without the Model
CameraInfoWithoutModel(exif) ==
    [k \in (IF "Make" \in DOMAIN exif THEN {"Manufacturer"} ELSE {})
           \cup (IF "Software" \in DOMAIN exif THEN {"Software"} ELSE {}) |->
        CASE k = "Manufacturer" -> exif["Make"]
          [] k = "Software" -> exif["Software"]]

\* lines 322-346
CameraInfo(exif) ==
    [k \in (IF "Make" \in DOMAIN exif THEN {"Manufacturer"} ELSE {})
           \cup (IF "Model" \in DOMAIN exif THEN {"Model"} ELSE {})
           \cup (IF "Software" \in DOMAIN exif THEN {"Software"} ELSE {})
           \cup (IF "ExifVersion" \in DOMAIN exif THEN {"EXIF Version"} ELSE {})
           \cup (IF "BodySerialNumber" \in DOMAIN exif
                 THEN {"Camera Serial Number"} ELSE {}) |->
        CASE k = "Manufacturer" -> exif["Make"]
          [] k = "Model" -> exif["Model"]
          [] k = "Software" -> exif["Software"]
          [] k = "EXIF Version" ->
                IF exif["ExifVersion"].t = "bytes"
                THEN Str(exif["ExifVersion"].v) ELSE exif["ExifVersion"]
          [] k = "Camera Serial Number" -> exif["BodySerialNumber"]]

\* lines 330-340
DeviceFields(ph) ==
    IF ph.brand = <<>> THEN EmptyDict
    ELSE [k \in {"Device Type", "Brand", "Model", "Operating System"} |->
            CASE k = "Device Type" -> Str(<<"Smartphone">>)
              [] k = "Brand" -> Str(ph.brand)
              [] k = "Model" -> Str(ph.model)
              [] k = "Operating System" -> Str(<<OperatingSystem(ph.brand)>>)]

\* lines 325-340: the Device Information fields, or no field when the Model
\* matches no phone pattern
DeviceInfo(exif) ==
    IF "Model" \notin DOMAIN exif THEN EmptyDict
    ELSE DeviceFields(extract_phone_info(exif["Model"]))

\* "{x:.1f}" of num/den, rounded half up
Fixed1(num, den) ==
    LET q == (20 * num + den) \div (2 * den)
    IN NatStr(q \div 10) \o <<".">> \o NatStr(q % 10)

\* the try blocks of lines 359-365 and 369-375: the number to one decimal, or
\* str(value) when the conversion raises
Rational1(value) ==
    IF value.t = "tuple"
    THEN IF Len(value.v) >= 2 /\ value.v[1].t = "num" /\ value.v[2].t = "num"
            /\ value.v[2].v > 0 /\ value.v[1].v >= 0
         THEN Fixed1(value.v[1].v, value.v[2].v)
         ELSE PyStr(value)
    ELSE IF FloatOf(value).ok /\ FloatOf(value).val >= 0
    THEN Fixed1(FloatOf(value).val, 1)
    ELSE PyStr(value)

FlashKeys == {0, 1, 5, 7, 8, 9, 13, 15, 16, 20, 24, 25, 29, 31, 32, 48, 65, 69, 71, 73, 77, 79, 80, 88, 89, 93, 95}

\* lines 377-405
flash_info(n) ==
    CASE n = 0 -> "No Flash"
      [] n = 1 -> "Fired"
      [] n = 5 -> "Fired, Return not detected"
      [] n = 7 -> "Fired, Return detected"
      [] n = 8 -> "On, Did not fire"
      [] n = 9 -> "On, Fired"
      [] n = 13 -> "On, Return not detected"
      [] n = 15 -> "On, Return detected"
      [] n = 16 -> "Off, Did not fire"
      [] n = 20 -> "Off, Did not fire, Return not detected"
      [] n = 24 -> "Auto, Did not fire"
      [] n = 25 -> "Auto, Fired"
      [] n = 29 -> "Auto, Fired, Return not detected"
      [] n = 31 -> "Auto, Fired, Return detected"
      [] n = 32 -> "No flash function"
      [] n = 48 -> "Off, No flash function"
      [] n = 65 -> "Fired, Red-eye reduction"
      [] n = 69 -> "Fired, Red-eye reduction, Return not detected"
      [] n = 71 -> "Fired, Red-eye reduction, Return detected"
      [] n = 73 -> "On, Red-eye reduction"
      [] n = 77 -> "On, Red-eye reduction, Return not detected"
      [] n = 79 -> "On, Red-eye reduction, Return detected"
      [] n = 80 -> "Off, Red-eye reduction"
      [] n = 88 -> "Auto, Did not fire, Red-eye reduction"
      [] n = 89 -> "Auto, Fired, Red-eye reduction"
      [] n = 93 -> "Auto, Fired, Red-eye reduction, Return not detected"
      [] n = 95 -> "Auto, Fired, Red-eye reduction, Return detected"

\* a fallback that leaves the value out
FlashTextWithoutValue(value) ==
    IF value.t = "num" /\ value.v \in FlashKeys THEN Str(<<flash_info(value.v)>>)
    ELSE Str(<<"Unknown">>)

\* line 406
FlashText(value) ==
    IF value.t = "num" /\ value.v \in FlashKeys THEN Str(<<flash_info(value.v)>>)
    ELSE Str(<<"Unknown (Value: ">> \o PyStr(value) \o <<")">>)

\* lines 349-406
CameraSettings(exif) ==
    [k \in (IF "ExposureTime" \in DOMAIN exif THEN {"Exposure Time"} ELSE {})
           \cup (IF "FNumber" \in DOMAIN exif THEN {"Aperture"} ELSE {})
           \cup (IF "ISOSpeedRatings" \in DOMAIN exif THEN {"ISO Speed"} ELSE {})
           \cup (IF "FocalLength" \in DOMAIN exif THEN {"Focal Length"} ELSE {})
           \cup (IF "Flash" \in DOMAIN exif THEN {"Flash"} ELSE {}) |->
        CASE k = "Exposure Time" ->
                LET x == exif["ExposureTime"]
                IN IF x.t = "tuple"
                   THEN (IF Len(x.v) >= 2
                         THEN Str(PyStr(x.v[1]) \o <<"/">> \o PyStr(x.v[2]) \o <<" sec">>)
                         ELSE Str(PyStr(x)))
                   ELSE Str(PyStr(x) \o <<" sec">>)
          [] k = "Aperture" ->
                LET x == exif["FNumber"]
                IN IF Rational1(x) = PyStr(x) THEN Str(PyStr(x))
                   ELSE Str(<<"f/">> \o Rational1(x))
          [] k = "ISO Speed" -> exif["ISOSpeedRatings"]
          [] k = "Focal Length" ->
                LET x == exif["FocalLength"]
                IN IF Rational1(x) = PyStr(x) THEN Str(PyStr(x))
                   ELSE Str(Rational1(x) \o <<" mm">>)
          [] k = "Flash" -> FlashText(exif["Flash"])]

\* {**camera_info, **camera_settings}
Merge(a, b) == [k \in DOMAIN a \cup DOMAIN b |-> IF k \in DOMAIN b THEN b[k] ELSE a[k]]

\* a category that is the merged mapping also when it is empty
CameraCategoryAlwaysFields(camera_info, camera_settings) ==
    Fields(Merge(camera_info, camera_settings))

\* line 408
CameraCategory(camera_info, camera_settings) ==
    IF DOMAIN camera_info # {} \/ DOMAIN camera_settings # {}
    THEN Fields(Merge(camera_info, camera_settings))
    ELSE Placeholder("No camera metadata found")

InterestingKeys ==
    {"Image Orientation",
     "EXIF LightSource",
     "EXIF ExposureProgram",
     "EXIF MeteringMode",
     "EXIF WhiteBalance",
     "EXIF SceneCaptureType",
     "EXIF LensModel",
     "EXIF LensSerialNumber",
     "EXIF BodySerialNumber",
     "EXIF Contrast",
     "EXIF Saturation",
     "EXIF Sharpness",
     "EXIF DigitalZoomRatio",
     "EXIF ExposureBiasValue",
     "EXIF MaxApertureValue",
     "EXIF SubjectDistance",
     "EXIF FocalLengthIn35mmFilm"}

\* lines 415-433
interesting_tags(k) ==
    CASE k = "Image Orientation" -> "Orientation"
      [] k = "EXIF LightSource" -> "Light Source"
      [] k = "EXIF ExposureProgram" -> "Exposure Program"
      [] k = "EXIF MeteringMode" -> "Metering Mode"
      [] k = "EXIF WhiteBalance" -> "White Balance"
      [] k = "EXIF SceneCaptureType" -> "Scene Type"
      [] k = "EXIF LensModel" -> "Lens Model"
      [] k = "EXIF LensSerialNumber" -> "Lens Serial"
      [] k = "EXIF BodySerialNumber" -> "Camera Serial"
      [] k = "EXIF Contrast" -> "Contrast"
      [] k = "EXIF Saturation" -> "Saturation"
      [] k = "EXIF Sharpness" -> "Sharpness"
      [] k = "EXIF DigitalZoomRatio" -> "Digital Zoom"
      [] k = "EXIF ExposureBiasValue" -> "Exposure Bias"
      [] k = "EXIF MaxApertureValue" -> "Max Aperture"
      [] k = "EXIF SubjectDistance" -> "Subject Distance"
      [] k = "EXIF FocalLengthIn35mmFilm" -> "35mm Equivalent Focal Length"

\* lines 435-438
AdditionalData(tags) ==
    [name \in {interesting_tags(k) : k \in DOMAIN tags \cap InterestingKeys} |->
        Str(PyStr(tags[CHOOSE k \in DOMAIN tags \cap InterestingKeys :
                           interesting_tags(k) = name]))]

\* lines 444-452
ToolInformation ==
    [k \in {"Tool Name", "Tool Version", "Tool Owner", "Python Version",
            "Operating System", "OS Version", "Processor"} |->
        CASE k = "Tool Name" -> Str(<<"AIM Forensic Extractor">>)
          [] k = "Tool Version" -> Str(<<"v1.0">>)
          [] k = "Tool Owner" -> Str(<<"Sabir Khan">>)
          [] OTHER -> Str(<<"platform">>)]

(***************************************************************************)
(* Inputs: the files, images and EXIF blocks the model draws from.         *)
(***************************************************************************)
\* a file of len * 1024^exp bytes; exp is 0 for every file that is read
File(kind, len, seed, marks) ==
    [kind |-> kind, len |-> len, seed |-> seed, marks |-> marks, exp |-> 0]

PipelineFiles ==
    {File("missing", 0, 0, {}),
     File("nonimage", 0, 1, {}),
     File("nonimage", ChunkSize + 1, 1, {}),
     File("image", 100, 1, {}),
     File("image", 100, 1, {"Photoshop", "steg"}),
     File("image", ChunkSize + 1, 1, {})}

HashLens ==
    {0, 1} \cup {k * ChunkSize + d : k \in 1..MaxChunks, d \in {0 - 1, 0, 1}}

HashFiles == {File("nonimage", n, sd, {}) : n \in HashLens, sd \in 1..MaxSeed}

\* images Image.open delivers (it rejects a width or height of 0): a plain
\* one, and one with many info entries and a TIFF compression
Images ==
    {Img(<<4, 3>>, 2, NoneV),
     Img(<<4000, 3000>>, 12, Str(<<"tiff_lzw">>))}

LatDMS == Tup(<<Num(40), Num(26), Num(46)>>)
LonDMS == Tup(<<Num(79), Num(56), Num(56)>>)

Restrict(d, keys) == [k \in keys |-> d[k]]

GpsFull ==
    [k \in {1, 2, 3, 4, 5, 6, 16} |->
        CASE k = 1 -> Str(<<"N">>)
          [] k = 2 -> LatDMS
          [] k = 3 -> Str(<<"W">>)
          [] k = 4 -> LonDMS
          [] k = 5 -> Num(120)
          [] k = 6 -> Tup(<<Num(10), Num(30), Num(0)>>)
          [] k = 16 -> Num(90)]

\* a legacy flat sequence holding d at its positions (Python index = key)
Legacy(d, n) == Tup([i \in 1..n |-> IF (i - 1) \in DOMAIN d THEN d[i - 1] ELSE NoneV])

\* GPSInfo values of the pipeline specification
PipelineGps ==
    {Dict(Restrict(GpsFull, {1, 2, 3, 4})),
     Dict(GpsFull),
     Dict(Restrict(GpsFull, {2, 3, 4})),
     Dict(Restrict(GpsFull, {1, 3, 4})),
     Dict(Restrict(GpsFull, {1, 2, 3})),
     Dict([Restrict(GpsFull, {1, 2, 3, 4}) EXCEPT ![2] = Str(<<"x">>)]),
     Dict([Restrict(GpsFull, {1, 2, 3, 4}) EXCEPT ![2] = Tup(<<Num(91), Num(0), Num(0)>>)]),
     Dict([Restrict(GpsFull, {1, 2, 3, 4}) EXCEPT ![4] = Tup(<<Num(179), Num(60), Num(60)>>)]),
     Legacy(GpsFull, 5),
     Legacy(GpsFull, 17),
     Legacy(GpsFull, 3),
     Num(0),
     Dict(Restrict(GpsFull, {1, 2, 3, 4, 5})),
     Dict(Restrict(GpsFull, {1, 2, 3, 4, 5, 6})),
     Legacy(GpsFull, 6),
     Legacy(GpsFull, 7),
     Legacy(GpsFull, 4),
     Legacy(GpsFull, 0),
     Legacy([GpsFull EXCEPT ![1] = Str(<<"s">>), ![2] = Str(<<"x">>)], 17)}

CameraChoices ==
    {EmptyDict,
     [id \in {271, 272, 37385, 34855} |->
        CASE id = 271 -> Str(<<"A", "p", "p", "l", "e">>)
          [] id = 272 -> Str(<<"i", "P", "h", "o", "n", "e", " ", "1", "3", " ", "P", "r", "o">>)
          [] id = 37385 -> Num(25)
          [] id = 34855 -> Num(100)],
     [id \in {272, 36864, 42033, 37385, 33437, 34855} |->
        CASE id = 272 -> Str(<<"C", "a", "n", "o", "n", " ", "E", "O", "S", " ", "5", "D">>)
          [] id = 36864 -> Bytes(<<"0", "2", "3", "1">>)
          [] id = 42033 -> Str(<<"S", "N", "1">>)
          [] id = 37385 -> Num(255)
          [] id = 33437 -> Tup(<<Num(28), Num(10)>>)
          [] id = 34855 -> Tup(<<Num(100), Num(100)>>)]}

DateChoices ==
    {EmptyDict,
     [id \in {306} |-> Str(<<"2", "0", "2", "3", ":", "0", "1", ":", "1", "5", " ", "1", "0", ":", "3", "0", ":", "0", "0">>)]}

GpsChoices == {EmptyDict} \cup {[id \in {34853} |-> g] : g \in PipelineGps}

\* img._getexif(): raises, is missing or None, or gives a raw mapping
GetExifOutcomes ==
    {[t |-> "raise", v |-> EmptyDict], [t |-> "none", v |-> EmptyDict]}
        \cup {[t |-> "dict", v |-> Merge(Merge(c, d), g)] :
                c \in CameraChoices, d \in DateChoices, g \in GpsChoices}

\* open + exifread.process_file: open raises, the decoder raises, or tags
ExifReadOutcomes ==
    {[t |-> "open-error", v |-> EmptyDict], [t |-> "raise", v |-> EmptyDict],
     [t |-> "tags", v |-> EmptyDict],
     [t |-> "tags",
      v |-> [k \in {"EXIF BodySerialNumber", "EXIF LensModel", "Image Make"} |->
                Str(<<"S", "N", "2">>)]]}

(***************************************************************************)
(* MetadataExtractorApp: the window (lines 467-1170).  A record is held    *)
(* as [id, encodable]: id numbers the analysis that produced it (0 for     *)
(* None), encodable tells whether json can encode every value of it.  A    *)
(* view holds the id of the record it was rendered from, 0 when cleared.   *)
(***************************************************************************)
\* lines 642-646, 719 and 725: the window after __init__
GuiStart ==
    [current_file |-> [readable |-> FALSE, encodable |-> TRUE, chosen |-> FALSE],
     metadata |-> [id |-> 0, encodable |-> TRUE],
     metadata_tree |-> 0, json_view |-> 0, forensic_view |-> 0, forensic_summary |-> 0,
     save_button |-> FALSE, export_button |-> FALSE,
     message |-> "Ready to analyze images"]

\* lines 933-954 for the record rec: the four views after the call, and
\* whether json.dumps (line 948) raised
display_metadata(rec) ==
    [metadata_tree |-> rec.id,
     json_view |-> IF rec.encodable THEN rec.id ELSE 0,
     forensic_view |-> IF rec.encodable THEN rec.id ELSE 0,
     forensic_summary |-> IF rec.encodable THEN rec.id ELSE 0,
     raised |-> ~rec.encodable]

\* lines 871-931 for the window g whose current_file is set: os.path.getsize
\* raises for an unreadable file (line 901); extract_all_metadata returns
\* the record rec (line 909)
analyze_image(g, rec) ==
    IF ~g.current_file.readable
    THEN [g EXCEPT !.message = "Failed to analyze image"]
    ELSE IF display_metadata(rec).raised
    THEN [g EXCEPT !.metadata = rec,
                   !.metadata_tree = display_metadata(rec).metadata_tree,
                   !.json_view = display_metadata(rec).json_view,
                   !.forensic_view = display_metadata(rec).forensic_view,
                   !.forensic_summary = display_metadata(rec).forensic_summary,
                   !.message = "Failed to analyze image"]
    ELSE [g EXCEPT !.metadata = rec,
                   !.metadata_tree = display_metadata(rec).metadata_tree,
                   !.json_view = display_metadata(rec).json_view,
                   !.forensic_view = display_metadata(rec).forensic_view,
                   !.forensic_summary = display_metadata(rec).forensic_summary,
                   !.save_button = TRUE,
                   !.export_button = TRUE,
                   !.message = "Analysis complete"]

(***************************************************************************)
(* extract_all_metadata: the actions, one per stage (lines 191-459).       *)
(***************************************************************************)
\* a with block that keeps its handle open on exit
WithExitLeaks(held, h) == held

\* the exit of a with block (lines 40, 134, 144, 160, 222, 411), on the
\* normal path and on an exception alike: the handle h is closed
WithExit(held, h) == held \ {h}

\* an exception leaving the with blocks of lines 411 and 222 on its way to
\* the handler of line 454
Unwind(held) == WithExit(WithExit(held, "exif"), "img")

\* lines 241-243: extract_thumbnail, analyze_steganography and
\* detect_tampering_indicators each open the file in a with block of their own
Scanned(held) ==
    WithExit(WithExit(WithExit(held \cup {"thumbnail"}, "thumbnail")
                         \cup {"steganography"}, "steganography")
                \cup {"tampering"}, "tampering")

\* lines 454-459: the handler and the return that follows it, held the
\* handles open where the exception was raised
Fail(m, e, where, held) ==
    /\ pc' = "Failed"
    /\ handles' = Unwind(held)
    /\ IF Catches(e)
       THEN /\ metadata' = CriticalError(m, e, where)
            /\ outcome' = "returned"
       ELSE /\ metadata' = m
            /\ outcome' = "raised"

\* lines 204-216
Stat ==
    /\ pc = "Init"
    /\ IF file.kind = "missing"
       THEN Fail(metadata, Exc("FileNotFoundError", "No such file or directory"), "os.stat",
                 handles)
       ELSE /\ metadata' = Put(metadata, "File Information", Fields(FileInformation(file)))
            /\ pc' = "FileStatted"
            /\ UNCHANGED <<outcome, handles>>
    /\ UNCHANGED <<file, gui, hash_functions, fpos, reads, img, exif_data>>

\* a loop that stops at the first short read
LoopStopsAtShortRead(chunk) == chunk.len = ChunkSize

\* line 41: while chunk := f.read(8192)
LoopContinues(chunk) == chunk.len > 0

\* lines 29-40 and, when open raises, 47-51 and 219
HashOpen ==
    /\ pc = "FileStatted"
    /\ hash_functions' = [a \in Algs |-> HashNew(a)]
    /\ fpos' = 0
    /\ reads' = 0
    /\ \E opened \in BOOLEAN :
          IF opened
          THEN /\ handles' = handles \cup {"hash"}
               /\ pc' = "Hashing"
               /\ UNCHANGED metadata
          ELSE /\ metadata' = Put(metadata, "File Integrity",
                                  Fields(HashesOnError(Exc("PermissionError",
                                                           "Permission denied"))))
               /\ pc' = "Hashed"
               /\ UNCHANGED handles
    /\ UNCHANGED <<outcome, file, gui, img, exif_data>>

\* lines 41-46, 51 and 219: one f.read; an empty chunk ends the loop
HashRead ==
    /\ pc = "Hashing"
    /\ reads' = reads + 1
    /\ LET chunk == Read(file, fpos, ChunkSize)
       IN IF LoopContinues(chunk)
          THEN /\ hash_functions' =
                      [a \in Algs |-> HashUpdate(a, hash_functions[a], file, chunk)]
               /\ fpos' = fpos + chunk.len
               /\ UNCHANGED <<pc, metadata, handles>>
          ELSE /\ handles' = WithExit(handles, "hash")
               /\ metadata' = Put(metadata, "File Integrity",
                                  Fields(HashesOnSuccess(hash_functions)))
               /\ pc' = "Hashed"
               /\ UNCHANGED <<hash_functions, fpos>>
    /\ UNCHANGED <<outcome, file, gui, img, exif_data>>

\* lines 41, 47-51 and 219: f.read raises
HashReadError ==
    /\ pc = "Hashing"
    /\ reads' = reads + 1
    /\ handles' = WithExit(handles, "hash")
    /\ metadata' = Put(metadata, "File Integrity",
                       Fields(HashesOnError(Exc("OSError", "Input/output error"))))
    /\ pc' = "Hashed"
    /\ UNCHANGED <<outcome, file, gui, hash_functions, fpos, img, exif_data>>

\* lines 222-224
ImageOpen ==
    /\ pc = "Hashed"
    /\ IF file.kind = "image"
       THEN \E i \in Images :
               /\ img' = i
               /\ handles' = handles \cup {"img"}
               /\ metadata' = WithFileType(metadata, i)
               /\ pc' = "ImageOpened"
               /\ UNCHANGED outcome
       ELSE /\ Fail(metadata, Exc("UnidentifiedImageError", "cannot identify image file"),
                    "Image.open", handles)
            /\ UNCHANGED img
    /\ UNCHANGED <<file, gui, hash_functions, fpos, reads, exif_data>>

\* lines 246-259, m the record after lines 227-243
ExifMergeInto(m, r) ==
    IF r.t = "raise"
    THEN /\ Fail(m, Exc("SyntaxError", "not a TIFF file"), "img._getexif",
                 Scanned(handles))
         /\ UNCHANGED exif_data
    ELSE /\ exif_data' = DecodeExif(r.v)
         /\ metadata' = m
         /\ pc' = "ExifMerged"
         /\ handles' = Scanned(handles)
         /\ UNCHANGED outcome

\* lines 227-259
ExifMerge ==
    /\ pc = "ImageOpened"
    /\ \E r \in GetExifOutcomes, readable \in BOOLEAN :
          ExifMergeInto(Put(Put(metadata, "Image Dimensions & Quality",
                                Fields(ImageDimensions(img))),
                            "Forensic Analysis",
                            Fields(ForensicAnalysis(file, img, readable))), r)
    /\ UNCHANGED <<file, gui, hash_functions, fpos, reads, img>>

\* lines 262-306
GpsResolve ==
    /\ pc = "ExifMerged"
    /\ LET r == GpsStage(exif_data, metadata["Warnings"].v)
       IN metadata' = Put(Put(metadata, "Warnings", [kind |-> "list", v |-> r.warnings]),
                          "GPS & Location Data", GpsCategory(r.gps_info))
    /\ pc' = "GpsResolved"
    /\ UNCHANGED <<outcome, file, gui, handles, hash_functions, fpos, reads, img, exif_data>>

\* a date stage that runs in place of the GPS stage
DateResolveSkippingGps ==
    /\ pc = "ExifMerged"
    /\ metadata' = Put(metadata, "Date & Time Information", DateCategory(DateInfo(exif_data)))
    /\ pc' = "DateResolved"
    /\ UNCHANGED <<outcome, file, gui, handles, hash_functions, fpos, reads, img, exif_data>>

\* lines 309-319
DateResolve ==
    /\ pc = "GpsResolved"
    /\ metadata' = Put(metadata, "Date & Time Information", DateCategory(DateInfo(exif_data)))
    /\ pc' = "DateResolved"
    /\ UNCHANGED <<outcome, file, gui, handles, hash_functions, fpos, reads, img, exif_data>>

\* lines 322-408, and the end of the with block of line 222
CameraResolve ==
    /\ pc = "DateResolved"
    /\ LET device == DeviceInfo(exif_data)
           m == IF DOMAIN device # {}
                THEN Put(metadata, "Device Information", Fields(device))
                ELSE metadata
       IN metadata' = Put(m, "Camera Information",
                          CameraCategory(CameraInfo(exif_data), CameraSettings(exif_data)))
    /\ handles' = WithExit(handles, "img")
    /\ pc' = "CameraResolved"
    /\ UNCHANGED <<outcome, file, gui, hash_functions, fpos, reads, img, exif_data>>

\* lines 411-441
AdditionalMerge ==
    /\ pc = "CameraResolved"
    /\ \E r \in ExifReadOutcomes :
          IF r.t = "open-error"
          THEN Fail(metadata, Exc("PermissionError", "Permission denied"), "open",
                    handles)
          ELSE IF r.t = "raise"
          THEN Fail(metadata, Exc("IndexError", "index out of range"),
                    "exifread.process_file", handles \cup {"exif"})
          ELSE /\ metadata' = (IF DOMAIN AdditionalData(r.v) # {}
                               THEN Put(metadata, "Additional EXIF Data",
                                        Fields(AdditionalData(r.v)))
                               ELSE metadata)
               /\ pc' = "AdditionalTagsMerged"
               /\ handles' = WithExit(handles \cup {"exif"}, "exif")
               /\ UNCHANGED outcome
    /\ UNCHANGED <<file, gui, hash_functions, fpos, reads, img, exif_data>>

\* lines 444-452
ToolInfo ==
    /\ pc = "AdditionalTagsMerged"
    /\ metadata' = Put(metadata, "Tool Information", Fields(ToolInformation))
    /\ pc' = "ToolInfoAttached"
    /\ UNCHANGED <<outcome, file, gui, handles, hash_functions, fpos, reads, img, exif_data>>

\* line 459
Return ==
    /\ pc = "ToolInfoAttached"
    /\ pc' = "Done"
    /\ outcome' = "returned"
    /\ UNCHANGED <<file, gui, metadata, handles, hash_functions, fpos, reads, img, exif_data>>

(***************************************************************************)
(* Specifications.                                                         *)
(***************************************************************************)
\* one call of extract_all_metadata(image_path)
Init ==
    /\ pc = "Init"
    /\ outcome = "running"
    /\ gui = GuiStart
    /\ file \in PipelineFiles
    /\ metadata = InitialMetadata
    /\ handles = {}
    /\ hash_functions = EmptyDict
    /\ fpos = 0
    /\ reads = 0
    /\ img = NoneV
    /\ exif_data = EmptyDict

Next ==
    \/ Stat
    \/ HashOpen
    \/ HashRead
    \/ HashReadError
    \/ ImageOpen
    \/ ExifMerge
    \/ GpsResolve
    \/ DateResolve
    \/ CameraResolve
    \/ AdditionalMerge
    \/ ToolInfo
    \/ Return

Spec == Init /\ [][Next]_vars

\* calculate_file_hashes alone, over files of every length around the chunk
\* boundaries
InitHash ==
    /\ pc = "FileStatted"
    /\ outcome = "running"
    /\ gui = GuiStart
    /\ file \in HashFiles
    /\ metadata = Put(InitialMetadata, "File Information", Fields(FileInformation(file)))
    /\ handles = {}
    /\ hash_functions = EmptyDict
    /\ fpos = 0
    /\ reads = 0
    /\ img = NoneV
    /\ exif_data = EmptyDict

NextHash ==
    \/ HashOpen
    \/ HashRead
    \/ HashReadError

SpecHash == InitHash /\ [][NextHash]_vars

\* the record when the GPS stage starts, for file f opened as image i whose
\* hashing succeeded in one chunk (lines 204-243)
MetadataAtExifMerged(f, i) ==
    LET hashed == [a \in Algs |->
                      HashUpdate(a, HashNew(a), f, Read(f, 0, ChunkSize))]
        m == Put(Put(InitialMetadata, "File Information", Fields(FileInformation(f))),
                 "File Integrity", Fields(HashesOnSuccess(hashed)))
    IN Put(Put(WithFileType(m, i), "Image Dimensions & Quality",
               Fields(ImageDimensions(i))),
           "Forensic Analysis", Fields(ForensicAnalysis(f, i, TRUE)))

\* degree, minute and second numbers of the GPS specification
GpsDegs == {0, 40, 79, 91}
GpsMins == {0, 26, 56}
GpsSecs == {0, 46, 56, 60}
GpsTriples == {<<d, m, s>> : d \in GpsDegs, m \in GpsMins, s \in GpsSecs}

\* the shapes convert_coord accepts for a coordinate (lines 63-68): a sequence
\* of three numbers, a sequence of three numerals, a comma-separated string
CoordShapes == {"numbers", "numerals", "csv"}

Coord(shape, c) ==
    CASE shape = "numbers" -> Tup(<<Num(c[1]), Num(c[2]), Num(c[3])>>)
      [] shape = "numerals" ->
            Tup(<<Str(NatStr(c[1])), Str(NatStr(c[2])), Str(NatStr(c[3]))>>)
      [] shape = "csv" ->
            Str(NatStr(c[1]) \o <<",", " ">> \o NatStr(c[2]) \o <<",">> \o NatStr(c[3]))

\* reference tags: the four letters in both cases, other texts, no tag
RefChoices ==
    {Str(<<c>>) : c \in {"N", "S", "E", "W", "n", "s", "e", "w", "X"}}
        \cup {Str(<<"N", "o">>), NoneV}

\* a GPS block of the dictionary shape
GpsBlock(latRef, lat, lonRef, lon) ==
    Dict([k \in {1, 2, 3, 4} |->
            CASE k = 1 -> latRef [] k = 2 -> lat [] k = 3 -> lonRef [] k = 4 -> lon])

\* GPSInfo values of the GPS specification: every coordinate in every shape
\* under every reference, one axis at a time
ConversionGps ==
    {GpsBlock(r, Coord(sh, c), Str(<<"W">>), LonDMS) :
        r \in RefChoices, sh \in CoordShapes, c \in GpsTriples}
    \cup {GpsBlock(Str(<<"N">>), LatDMS, r, Coord(sh, c)) :
        r \in RefChoices, sh \in CoordShapes, c \in GpsTriples}

\* the GPS stage alone (convert_gps_coordinates through its call site), on
\* an image that reached the stage
InitGps ==
    /\ pc = "ExifMerged"
    /\ outcome = "running"
    /\ gui = GuiStart
    /\ file = File("image", 100, 1, {})
    /\ img = Img(<<4, 3>>, 2, NoneV)
    /\ metadata = MetadataAtExifMerged(file, img)
    /\ handles = {"img"}
    /\ hash_functions = EmptyDict
    /\ fpos = 0
    /\ reads = 0
    /\ \E g \in ConversionGps : exif_data = [k \in {"GPSInfo"} |-> g]

NextGps == GpsResolve

SpecGps == InitGps /\ [][NextGps]_vars

\* byte counts around the unit boundaries and the rounding ties
SizeChoices ==
    (0..8) \cup (1015..1033)
        \cup {1024 * j + d : j \in {1, 2, 10, 100, 999, 1023, 1024, 1025, 2048, 5000, 10000},
                             d \in {0 - 1, 0, 1, 128, 384, 517}}

\* byte counts n * 1024^e, as <<n, e>>, from 1 KB to 3 * 1024^7 bytes
BigSizes ==
    {<<n, e>> : n \in {1, 2, 3, 512, 1023, 1024, 1025, 1536, 5000}, e \in 1..6}
        \cup {<<n, 7>> : n \in {1, 2, 3}}

\* the stat stage alone (get_human_readable_size through its call site)
InitSize ==
    /\ pc = "Init"
    /\ outcome = "running"
    /\ gui = GuiStart
    /\ \/ \E n \in SizeChoices : file = File("image", n, 1, {})
       \/ \E b \in BigSizes :
             file = [File("image", b[1], 1, {}) EXCEPT !.exp = b[2]]
    /\ metadata = InitialMetadata
    /\ handles = {}
    /\ hash_functions = EmptyDict
    /\ fpos = 0
    /\ reads = 0
    /\ img = NoneV
    /\ exif_data = EmptyDict

NextSize == Stat

SpecSize == InitSize /\ [][NextSize]_vars

\* Model strings, each with the brand and the group that Python's re.search
\* gives for it under the patterns of phone_db taken in order (brand <<>>:
\* no pattern matches)
PhoneCases ==
    {
     [s |-> <<"i", "P", "h", "o", "n", "e", " ", "1", "3", " ", "P", "r", "o">>,
      brand |-> <<"i", "P", "h", "o", "n", "e">>, model |-> <<"1", "3">>],
     [s |-> <<"I", "P", "H", "O", "N", "E", " ", "1", "2", "S">>,
      brand |-> <<"i", "P", "h", "o", "n", "e">>, model |-> <<"1", "2", "S">>],
     [s |-> <<"i", "P", "a", "d", "7">>,
      brand |-> <<"i", "P", "a", "d">>, model |-> <<"7">>],
     [s |-> <<"s", "a", "m", "s", "u", "n", "g", "-", "g", "a", "l", "a", "x", "y", " ", "s", "2", "1">>,
      brand |-> <<"S", "a", "m", "s", "u", "n", "g">>, model |-> <<"g", "a", "l", "a", "x", "y", " ", "s", "2", "1">>],
     [s |-> <<"S", "a", "m", "s", "u", "n", "g", " ", "S", "M", "-", "G", "9", "9", "1", "B">>,
      brand |-> <<>>, model |-> <<"S", "a", "m", "s", "u", "n", "g", " ", "S", "M", "-", "G", "9", "9", "1", "B">>],
     [s |-> <<"H", "u", "a", "w", "e", "i", " ", "P", "3", "0">>,
      brand |-> <<"H", "u", "a", "w", "e", "i">>, model |-> <<"P", "3", "0">>],
     [s |-> <<"X", "i", "a", "o", "m", "i", " ", "M", "i", " ", "1", "1">>,
      brand |-> <<"X", "i", "a", "o", "m", "i">>, model |-> <<"M", "i", " ", "1", "1">>],
     [s |-> <<"G", "o", "o", "g", "l", "e", " ", "P", "i", "x", "e", "l", " ", "6">>,
      brand |-> <<"G", "o", "o", "g", "l", "e">>, model |-> <<"P", "i", "x", "e", "l", " ", "6">>],
     [s |-> <<"O", "n", "e", "P", "l", "u", "s", " ", "9", "P", "r", "o">>,
      brand |-> <<"O", "n", "e", "P", "l", "u", "s">>, model |-> <<"9", "P", "r", "o">>],
     [s |-> <<"O", "n", "e", "P", "l", "u", "s", "-", "8">>,
      brand |-> <<"O", "n", "e", "P", "l", "u", "s">>, model |-> <<"8">>],
     [s |-> <<"S", "o", "n", "y", " ", "X", "p", "e", "r", "i", "a", " ", "5">>,
      brand |-> <<"S", "o", "n", "y">>, model |-> <<"X", "p", "e", "r", "i", "a", " ", "5">>],
     [s |-> <<"L", "G", " ", "G", "8">>,
      brand |-> <<"L", "G">>, model |-> <<"G", "8">>],
     [s |-> <<"M", "o", "t", "o", "r", "o", "l", "a", " ", "G", "5">>,
      brand |-> <<"M", "o", "t", "o", "r", "o", "l", "a">>, model |-> <<"r", "o", "l", "a">>],
     [s |-> <<"m", "o", "t", "o", " ", "g", "7">>,
      brand |-> <<"M", "o", "t", "o", "r", "o", "l", "a">>, model |-> <<"g", "7">>],
     [s |-> <<"L", "G", " ", "7", " ", "i", "P", "h", "o", "n", "e", " ", "1", "2">>,
      brand |-> <<"i", "P", "h", "o", "n", "e">>, model |-> <<"1", "2">>],
     [s |-> <<"S", "o", "n", "y", " ", "X", "p", "e", "r", "i", "a", " ", "L", "G", " ", "5">>,
      brand |-> <<"S", "o", "n", "y">>, model |-> <<"X", "p", "e", "r", "i", "a", " ", "L", "G">>],
     [s |-> <<"H", "u", "a", "w", "e", "i", " ", "M", "o", "t", "o", " ", "5">>,
      brand |-> <<"H", "u", "a", "w", "e", "i">>, model |-> <<"M", "o", "t", "o">>],
     [s |-> <<"i", "P", "a", "d", " ", "9", " ", "i", "P", "h", "o", "n", "e", " ", "1", "1">>,
      brand |-> <<"i", "P", "h", "o", "n", "e">>, model |-> <<"1", "1">>],
     [s |-> <<"i", "P", "a", "d", " ", "i", "P", "h", "o", "n", "e", " ", "1", "1">>,
      brand |-> <<"i", "P", "h", "o", "n", "e">>, model |-> <<"1", "1">>],
     [s |-> <<"a", "l", "g", "a", "e", " ", "5">>,
      brand |-> <<"L", "G">>, model |-> <<"a", "e">>],
     [s |-> <<"i", "P", "h", "o", "n", "e">>,
      brand |-> <<>>, model |-> <<"i", "P", "h", "o", "n", "e">>],
     [s |-> <<"G", "o", "o", "g", "l", "e", " ", "P", "i", "x", "e", "l">>,
      brand |-> <<>>, model |-> <<"G", "o", "o", "g", "l", "e", " ", "P", "i", "x", "e", "l">>],
     [s |-> <<"X", "i", "a", "o", "m", "i", " ", "R", "e", "d", "m", "i", " ", "N", "o", "t", "e">>,
      brand |-> <<>>, model |-> <<"X", "i", "a", "o", "m", "i", " ", "R", "e", "d", "m", "i", " ", "N", "o", "t", "e">>],
     [s |-> <<"C", "a", "n", "o", "n", " ", "E", "O", "S", " ", "5", "D">>,
      brand |-> <<>>, model |-> <<"C", "a", "n", "o", "n", " ", "E", "O", "S", " ", "5", "D">>],
     [s |-> <<>>,
      brand |-> <<>>, model |-> <<>>]
    }

ModelChoices == {Str(c.s) : c \in PhoneCases}

\* numeric flash tags: every value up to 0x60, and 0xFF
FlashChoices == {Num(n) : n \in (0..96) \cup {255}}

\* the camera stage alone (extract_phone_info and the flash lookup through
\* their call site), on an image with no GPS and no date tag
InitCamera ==
    /\ pc = "DateResolved"
    /\ outcome = "running"
    /\ gui = GuiStart
    /\ file = File("image", 100, 1, {})
    /\ img = Img(<<4, 3>>, 2, NoneV)
    /\ metadata = Put(Put(MetadataAtExifMerged(file, img),
                          "GPS & Location Data", GpsCategory(EmptyDict)),
                      "Date & Time Information", DateCategory(EmptyDict))
    /\ handles = {"img"}
    /\ hash_functions = EmptyDict
    /\ fpos = 0
    /\ reads = 0
    /\ \E m \in ModelChoices \cup {NoneV}, fl \in FlashChoices :
          exif_data = DecodeExif([id \in (IF m = NoneV THEN {} ELSE {272}) \cup {37385} |->
                                     IF id = 272 THEN m ELSE fl])

NextCamera ==
    \/ CameraResolve
    \/ AdditionalMerge
    \/ ToolInfo
    \/ Return

SpecCamera == InitCamera /\ [][NextCamera]_vars

(***************************************************************************)
(* Properties.                                                             *)
(***************************************************************************)
\* a category holds data: a field mapping with a field, a list with an
\* item, a text or a trace; a placeholder holds none
Populated(c) ==
    CASE c.kind = "fields" -> DOMAIN c.v # {}
      [] c.kind = "list" -> c.v # <<>>
      [] c.kind = "placeholder" -> FALSE
      [] OTHER -> TRUE

Has(k) == k \in DOMAIN metadata

ErrorKeys == {"Critical Error", "Stack Trace"}

\* the categories written after the image was opened
LaterCategories ==
    {"Image Dimensions & Quality", "GPS & Location Data", "Date & Time Information",
     "Camera Information", "Device Information", "Additional EXIF Data"}

\* C1: for every file and for a failure in any stage, extract_all_metadata
\* returns a record and never raises; a fatal failure shows only as the
\* Critical Error and Stack Trace entries of the returned record: the call
\* ends Failed exactly when the record holds both, and ends Done without them.
C1_AlwaysReturnsRecord ==
    /\ outcome # "raised"
    /\ pc \in {"Done", "Failed"} <=> outcome = "returned"
    /\ pc = "Failed" => ErrorKeys \subseteq DOMAIN metadata
    /\ pc # "Failed" => ErrorKeys \cap DOMAIN metadata = {}
    /\ DOMAIN metadata # {}

C1_Witness ==
    /\ pc = "Failed"
    /\ outcome = "returned"
    /\ Has("Stack Trace")
    /\ metadata["Stack Trace"].v.where = "exifread.process_file"

\* C2 (as amended): for a file that exists and is not an image, the returned
\* record holds the Critical Error and the Stack Trace of the image-open
\* failure together with the File Information and File Integrity computed
\* before it, both populated; Warnings and Forensic Analysis stay empty and
\* no dimension, GPS, date, camera, device or additional category is present.
C2_NonImageKeepsFileCategories ==
    (file.kind = "nonimage" /\ outcome = "returned") =>
        /\ DOMAIN metadata = ErrorKeys \cup {"File Information", "File Integrity",
                                             "Warnings", "Forensic Analysis"}
        /\ metadata["Stack Trace"].v.where = "Image.open"
        /\ metadata["File Information"] = Fields(FileInformation(file))
        /\ DOMAIN metadata["File Integrity"].v = Algs
        /\ ~Populated(metadata["Warnings"])
        /\ ~Populated(metadata["Forensic Analysis"])

C2_Witness ==
    /\ file.kind = "nonimage"
    /\ file.len > ChunkSize
    /\ outcome = "returned"
    /\ Has("Critical Error")
    /\ metadata["File Integrity"].v["SHA256"].kind = "hex"

\* C2 (as claimed): for a file that exists and is not an image, the only
\* populated categories of the returned record are the Critical Error and
\* the Stack Trace.
C2_OnlyErrorCategoriesPopulated ==
    (file.kind = "nonimage" /\ outcome = "returned") =>
        \A k \in DOMAIN metadata : Populated(metadata[k]) => k \in ErrorKeys

\* C3: a record that holds a Critical Error holds none of Image Dimensions,
\* GPS & Location, Date & Time, Camera Information, Device Information and
\* Additional EXIF Data, whichever stage raised.
C3_NoPartialCategories ==
    Has("Critical Error") => LaterCategories \cap DOMAIN metadata = {}

\* C4: only the failure of opening the image ends the extraction in Failed;
\* a failure of any other stage is absorbed and the extraction ends in Done.
C4_OnlyImageOpenFails ==
    outcome = "returned" =>
        \/ pc = "Done"
        \/ pc = "Failed" /\ metadata["Stack Trace"].v.where = "Image.open"

\* the GPS category is the placeholder
NoFix ==
    /\ metadata["GPS & Location Data"].kind = "placeholder"
    /\ metadata["GPS & Location Data"].v = "No GPS data found"

\* C5: for every file that opened as an image, the returned record holds
\* File Information and File Integrity, both populated: every field the stat
\* stage wrote and an entry for every algorithm, also without EXIF and GPS.
C5_ImageHasFileCategories ==
    (outcome = "returned" /\ img # NoneV) =>
        /\ Has("File Information") /\ Has("File Integrity")
        /\ DOMAIN FileInformation(file) \subseteq DOMAIN metadata["File Information"].v
        /\ \A k \in DOMAIN FileInformation(file) :
              metadata["File Information"].v[k] = FileInformation(file)[k]
        /\ DOMAIN metadata["File Integrity"].v = Algs

C5_Witness ==
    /\ pc = "Done"
    /\ img # NoneV
    /\ exif_data = EmptyDict
    /\ NoFix
    /\ Populated(metadata["File Information"])
    /\ Populated(metadata["File Integrity"])

\* the File Integrity mapping reports a failure
HashingFailed(m) == \E a \in DOMAIN m["File Integrity"].v : m["File Integrity"].v[a].kind = "error"

\* the File Integrity mapping has every algorithm as a key and, when it
\* reports a failure, one identical error entry under every key
UniformHashes(m) ==
    /\ DOMAIN m["File Integrity"].v = Algs
    /\ HashingFailed(m) =>
          \A a, b \in Algs :
             /\ m["File Integrity"].v[a].kind = "error"
             /\ m["File Integrity"].v[a] = m["File Integrity"].v[b]

\* a step of the hashing stage stays in it or ends it, without failing
HashingStep ==
    pc \in {"FileStatted", "Hashing"} =>
        /\ pc' \in {"Hashing", "Hashed"}
        /\ outcome' = "running"
        /\ ErrorKeys \cap DOMAIN metadata' = {}
        /\ pc' = "Hashed" => UniformHashes(metadata')

\* C6: calculate_file_hashes gives the same algorithm keys on success and on
\* failure (open error, read error after chunks were consumed); on failure
\* every key holds one identical error string and none a digest; and the
\* step that ends hashing goes on to the image-open stage, never to Failed.
C6_HashFailureIsUniformAndNonFatal == [][HashingStep]_vars

C6_Witness ==
    /\ pc = "ImageOpened"
    /\ reads >= 2
    /\ HashingFailed(metadata)
    /\ hash_functions["MD5"].fed # <<>>

\* the digest of all the bytes of f taken at once
DirectDigest(alg, f) ==
    LET r == RangeHash(alg, f, 0, f.len)
    IN [kind |-> "hex", v |-> (Mult(alg) * r[1] + r[2]) % 32749]

\* the chunks are consecutive, non-empty, at most ChunkSize long, start at
\* offset 0 and end at offset n
Consecutive(fed, n) ==
    /\ \A i \in 1..Len(fed) :
          /\ fed[i].len > 0
          /\ fed[i].len <= ChunkSize
          /\ fed[i].off = (IF i = 1 THEN 0 ELSE fed[i - 1].off + fed[i - 1].len)
    /\ n = (IF Len(fed) = 0 THEN 0 ELSE fed[Len(fed)].off + fed[Len(fed)].len)

\* C7: for every file content, the empty file and lengths off the chunk
\* size included, a hashing that succeeds read the file in one pass that
\* stopped at the first empty read, fed every accumulator the same chunks,
\* whose concatenation is the file's bytes in order, and reports for each
\* algorithm the digest of the whole file taken at once.
C7_ChunkedDigestEqualsDirect ==
    /\ pc = "Hashing" =>
          \A a \in Algs : /\ Consecutive(hash_functions[a].fed, fpos)
                          /\ reads = Len(hash_functions[a].fed)
    /\ (pc = "Hashed" /\ ~HashingFailed(metadata)) =>
          \A a \in Algs :
             /\ Consecutive(hash_functions[a].fed, file.len)
             /\ hash_functions[a].fed = hash_functions["MD5"].fed
             /\ reads = Len(hash_functions[a].fed) + 1
             /\ metadata["File Integrity"].v[a] = DirectDigest(a, file)

C7_Witness ==
    /\ pc = "Hashed"
    /\ ~HashingFailed(metadata)
    /\ file.len = ChunkSize + 1
    /\ Len(hash_functions["SHA1"].fed) = 2
    /\ reads = 3

\* the GPS block of the image, when it is of the dictionary shape
GpsTags == exif_data["GPSInfo"].v

HasGpsDict == "GPSInfo" \in DOMAIN exif_data /\ exif_data["GPSInfo"].t = "dict"

\* C8: when one of the four tags (latitude reference 1, latitude 2,
\* longitude reference 3, longitude 4) is missing from the GPS block, no fix
\* is produced: the GPS category is the "No GPS data found" placeholder, and
\* nothing was raised past convert_gps_coordinates (no warning was added).
C8_MissingTagGivesNoFix ==
    (pc = "GpsResolved" /\ HasGpsDict /\ ~({1, 2, 3, 4} \subseteq DOMAIN GpsTags)) =>
        NoFix /\ metadata["Warnings"].v = <<>>

\* the number of millionths of a degree that a field "-ddd.dddddd°" shows
MicroDegrees(text) ==
    LET t == SubSeq(text, 1, Len(text) - 1)
        u == IF t[1] = "-" THEN Tail(t) ELSE t
        h == Split(u, ".")
        n == DigitsVal(h[1], 0) * 1000000 + DigitsVal(h[2], 0)
    IN IF t[1] = "-" THEN 0 - n ELSE n

\* the latitude and longitude of the emitted fix, in millionths of a degree
FixLat == MicroDegrees(metadata["GPS & Location Data"].v["Latitude"].v)
FixLon == MicroDegrees(metadata["GPS & Location Data"].v["Longitude"].v)

\* micro millionths of a degree are arcsec/3600 degrees to six decimals
ShowsArc(micro, arcsec) == micro * 9 - arcsec * 2500 \in (0 - 4)..4

HasFix ==
    /\ Has("GPS & Location Data")
    /\ metadata["GPS & Location Data"].kind = "fields"

\* degrees + minutes/60 + seconds/3600, in arc seconds
ArcSeconds(c) == c[1] * 3600 + c[2] * 60 + c[3]

\* the sign a reference gives: positive for the letter in either case
Signed(value, ref, upper, lower) ==
    IF ref \in {Str(<<upper>>), Str(<<lower>>)} THEN value ELSE 0 - value

\* C9: convert_gps_coordinates computes degrees + minutes/60 + seconds/3600
\* from a 3-element sequence or a comma-separated string of three numbers,
\* negates latitude exactly when its reference is not "N" and longitude
\* exactly when its reference is not "E", in either case of the letter; and
\* (40,26,46) N, (79,56,56) W resolves to (40.4461, -79.9489) within 1e-4.
C9_DmsFormulaAndHemisphere ==
    pc = "GpsResolved" =>
        /\ HasFix
        /\ \A sh \in CoordShapes, c \in GpsTriples :
              /\ GpsTags[2] = Coord(sh, c) =>
                    ShowsArc(FixLat, Signed(ArcSeconds(c), GpsTags[1], "N", "n"))
              /\ GpsTags[4] = Coord(sh, c) =>
                    ShowsArc(FixLon, Signed(ArcSeconds(c), GpsTags[3], "E", "e"))
        /\ (GpsTags[2] = LatDMS /\ GpsTags[1] = Str(<<"N">>)) =>
              FixLat - 40446100 \in (0 - 100)..100
        /\ (GpsTags[4] = LonDMS /\ GpsTags[3] = Str(<<"W">>)) =>
              FixLon + 79948900 \in (0 - 100)..100

C9_Witness ==
    /\ pc = "GpsResolved"
    /\ GpsTags[1] = Str(<<"n">>)
    /\ GpsTags[2] = Coord("csv", <<40, 26, 46>>)
    /\ GpsTags[3] = Str(<<"W">>)
    /\ HasFix
    /\ FixLat = 40446111
    /\ FixLon = 0 - 79948889

\* C10: every fix in a record has its latitude within [-90, 90] and its
\* longitude within [-180, 180] degrees.
C10_FixWithinRange ==
    (pc = "GpsResolved" /\ HasFix) =>
        /\ FixLat >= 0 - 90 * 1000000 /\ FixLat <= 90 * 1000000
        /\ FixLon >= 0 - 180 * 1000000 /\ FixLon <= 180 * 1000000

\* the File Size field of the record: <<number, unit>>
SizeParts == Split(metadata["File Information"].v["File Size"].v, " ")

\* the text q is digits "." two digits; its value in hundredths
IsTwoDecimals(q) ==
    LET h == Split(q, ".")
    IN Len(h) = 2 /\ IsNumeral(h[1]) /\ IsNumeral(h[2]) /\ Len(h[2]) = 2

Hundredths(q) ==
    LET h == Split(q, ".")
    IN DigitsVal(h[1], 0) * 100 + DigitsVal(h[2], 0)

\* the text q is n/den rounded to two decimals
IsScaled(q, n, den) ==
    /\ IsTwoDecimals(q)
    /\ Hundredths(q) * den - n * 100 <= den \div 2
    /\ n * 100 - Hundredths(q) * den <= den \div 2

\* C17: get_human_readable_size renders a count below 1024 as whole bytes
\* ("1023 B"), a count from 1024 up to 1024^2 - 1 in KB and one from 1024^2
\* on in MB, the unit in which the value is below 1024, with exactly two
\* decimals: 1024 gives "1.00 KB" and 1048576 gives "1.00 MB".
C17_SizeUnitAndDecimals ==
    (pc = "FileStatted" /\ file.exp = 0) =>
        /\ Len(SizeParts) = 2
        /\ file.len < 1024 => SizeParts = <<NatStr(file.len), <<"B">>>>
        /\ (file.len >= 1024 /\ file.len < 1048576) =>
              SizeParts[2] = <<"K", "B">> /\ IsScaled(SizeParts[1], file.len, 1024)
        /\ file.len >= 1048576 =>
              SizeParts[2] = <<"M", "B">> /\ IsScaled(SizeParts[1], file.len, 1048576)
        /\ file.len = 1023 => SizeParts = <<<<"1", "0", "2", "3">>, <<"B">>>>
        /\ file.len = 1024 => SizeParts = <<<<"1", ".", "0", "0">>, <<"K", "B">>>>
        /\ file.len = 1048576 => SizeParts = <<<<"1", ".", "0", "0">>, <<"M", "B">>>>

C17_Witness ==
    /\ pc = "FileStatted"
    /\ file.len = 1048576 + 517
    /\ SizeParts = <<<<"1", ".", "0", "0">>, <<"M", "B">>>>

\* a string (a digest and a hashing error text are strings), a number or a
\* truth value
IsDisplayValue(x) ==
    IF "t" \in DOMAIN x THEN x.t \in {"str", "num", "bool"}
    ELSE x.kind \in {"hex", "error"}

\* C11: in every returned record, every field value of a flat category is a
\* final display string or number (a truth value counts as a number): no
\* list, tuple, rational, bytes or other raw object is a field value.
C11_FieldsAreDisplayValues ==
    outcome = "returned" =>
        \A k \in DOMAIN metadata :
           metadata[k].kind = "fields" =>
              \A f \in DOMAIN metadata[k].v : IsDisplayValue(metadata[k].v[f])

\* C12: a tag that the high-level decoder provided (the body serial number,
\* the one tag the record takes from both decoders) is carried with the
\* high-level value only: the low-level value of the tag is not in the record.
C12_HighLevelValueOnly ==
    (pc = "Done" /\ "BodySerialNumber" \in DOMAIN exif_data) =>
        /\ metadata["Camera Information"].v["Camera Serial Number"]
              = exif_data["BodySerialNumber"]
        /\ ~(/\ Has("Additional EXIF Data")
             /\ "Camera Serial" \in DOMAIN metadata["Additional EXIF Data"].v)

\* the category k, when written, is the placeholder with the given text
IsPlaceholder(k, text) ==
    Has(k) => metadata[k].kind = "placeholder" /\ metadata[k].v = text

\* C13: for an image that opened and has no EXIF in either decoder (the
\* high-level mapping is empty, the low-level read added nothing), no stage
\* fails or warns: each of GPS, Date & Time and Camera Information is its
\* "not found" placeholder once written, all three are written from the
\* camera stage on, and the extraction that reaches Done returns this record
\* with an empty Warnings list and no Critical Error.
C13_NoExifGivesPlaceholders ==
    (exif_data = EmptyDict /\ ~Has("Additional EXIF Data")
        /\ pc \notin {"Init", "FileStatted", "Hashing", "Hashed", "ImageOpened", "Failed"}) =>
        /\ IsPlaceholder("GPS & Location Data", "No GPS data found")
        /\ IsPlaceholder("Date & Time Information", "No date/time metadata found")
        /\ IsPlaceholder("Camera Information", "No camera metadata found")
        /\ metadata["Warnings"].v = <<>>
        /\ ~Has("Critical Error") /\ ~Has("Device Information")
        /\ pc \notin {"ExifMerged", "GpsResolved", "DateResolved"} =>
              {"GPS & Location Data", "Date & Time Information",
               "Camera Information"} \subseteq DOMAIN metadata
        /\ pc = "Done" => outcome = "returned"

C13_Witness ==
    /\ pc = "Done"
    /\ outcome = "returned"
    /\ exif_data = EmptyDict
    /\ ~Has("Additional EXIF Data")
    /\ metadata["Camera Information"].kind = "placeholder"
    /\ metadata["Date & Time Information"].kind = "placeholder"

\* C14: extract_phone_info returns the brand of the first pattern of the
\* table that matches the Model string, in either case of its letters, also
\* when a later pattern matches or matches further left, with the captured
\* substring as the model (which the Device Information category shows); when
\* no pattern matches it returns no brand and the original string.
C14_FirstPatternWins ==
    (pc = "CameraResolved" /\ "Model" \in DOMAIN exif_data) =>
        \A c \in PhoneCases :
           exif_data["Model"] = Str(c.s) =>
              /\ extract_phone_info(exif_data["Model"]) = [brand |-> c.brand, model |-> c.model]
              /\ c.brand # <<>> =>
                    /\ Has("Device Information")
                    /\ metadata["Device Information"].v["Brand"] = Str(c.brand)
                    /\ metadata["Device Information"].v["Model"] = Str(c.model)

C14_Witness ==
    /\ pc = "CameraResolved"
    /\ "Model" \in DOMAIN exif_data
    /\ exif_data["Model"] = Str(<<"i", "P", "a", "d", " ", "9", " ", "i", "P", "h", "o", "n", "e", " ", "1", "1">>)
    /\ Has("Device Information")
    /\ metadata["Device Information"].v["Brand"] = Str(<<"i", "P", "h", "o", "n", "e">>)

(***************************************************************************)
(* The date stage alone (lines 309-319), over DateTime texts in the three  *)
(* spellings, valid and invalid, padded and not.  Each row carries the     *)
(* text datetime.strptime/strftime give when one of the three formats      *)
(* accepts the stripped text.                                              *)
(***************************************************************************)
DateCases ==
    {
     [s |-> <<"2", "0", "2", "3", ":", "0", "1", ":", "1", "5", " ", "1", "0", ":", "3", "0", ":", "0", "0">>,
      parsed |-> TRUE, out |-> <<"January", " ", "1", "5", ",", " ", "2", "0", "2", "3", " ", "a", "t", " ", "1", "0", ":", "3", "0", ":", "0", "0">>],
     [s |-> <<"2", "0", "2", "3", "-", "0", "1", "-", "1", "5", " ", "1", "0", ":", "3", "0", ":", "0", "0">>,
      parsed |-> TRUE, out |-> <<"January", " ", "1", "5", ",", " ", "2", "0", "2", "3", " ", "a", "t", " ", "1", "0", ":", "3", "0", ":", "0", "0">>],
     [s |-> <<"2", "0", "2", "3", "/", "0", "1", "/", "1", "5", " ", "1", "0", ":", "3", "0", ":", "0", "0">>,
      parsed |-> TRUE, out |-> <<"January", " ", "1", "5", ",", " ", "2", "0", "2", "3", " ", "a", "t", " ", "1", "0", ":", "3", "0", ":", "0", "0">>],
     [s |-> <<"2", "0", "2", "4", ":", "0", "2", ":", "2", "9", " ", "2", "3", ":", "5", "9", ":", "5", "9">>,
      parsed |-> TRUE, out |-> <<"February", " ", "2", "9", ",", " ", "2", "0", "2", "4", " ", "a", "t", " ", "2", "3", ":", "5", "9", ":", "5", "9">>],
     [s |-> <<"2", "0", "2", "4", "-", "0", "2", "-", "2", "9", " ", "2", "3", ":", "5", "9", ":", "5", "9">>,
      parsed |-> TRUE, out |-> <<"February", " ", "2", "9", ",", " ", "2", "0", "2", "4", " ", "a", "t", " ", "2", "3", ":", "5", "9", ":", "5", "9">>],
     [s |-> <<"2", "0", "2", "4", "/", "0", "2", "/", "2", "9", " ", "2", "3", ":", "5", "9", ":", "5", "9">>,
      parsed |-> TRUE, out |-> <<"February", " ", "2", "9", ",", " ", "2", "0", "2", "4", " ", "a", "t", " ", "2", "3", ":", "5", "9", ":", "5", "9">>],
     [s |-> <<"1", "9", "9", "9", ":", "1", "2", ":", "3", "1", " ", "0", "0", ":", "0", "0", ":", "0", "0">>,
      parsed |-> TRUE, out |-> <<"December", " ", "3", "1", ",", " ", "1", "9", "9", "9", " ", "a", "t", " ", "0", "0", ":", "0", "0", ":", "0", "0">>],
     [s |-> <<"1", "9", "9", "9", "-", "1", "2", "-", "3", "1", " ", "0", "0", ":", "0", "0", ":", "0", "0">>,
      parsed |-> TRUE, out |-> <<"December", " ", "3", "1", ",", " ", "1", "9", "9", "9", " ", "a", "t", " ", "0", "0", ":", "0", "0", ":", "0", "0">>],
     [s |-> <<"1", "9", "9", "9", "/", "1", "2", "/", "3", "1", " ", "0", "0", ":", "0", "0", ":", "0", "0">>,
      parsed |-> TRUE, out |-> <<"December", " ", "3", "1", ",", " ", "1", "9", "9", "9", " ", "a", "t", " ", "0", "0", ":", "0", "0", ":", "0", "0">>],
     [s |-> <<"2", "0", "2", "3", ":", "1", ":", "5", " ", "1", ":", "2", ":", "3">>,
      parsed |-> TRUE, out |-> <<"January", " ", "0", "5", ",", " ", "2", "0", "2", "3", " ", "a", "t", " ", "0", "1", ":", "0", "2", ":", "0", "3">>],
     [s |-> <<"2", "0", "2", "3", "-", "1", "-", "5", " ", "1", ":", "2", ":", "3">>,
      parsed |-> TRUE, out |-> <<"January", " ", "0", "5", ",", " ", "2", "0", "2", "3", " ", "a", "t", " ", "0", "1", ":", "0", "2", ":", "0", "3">>],
     [s |-> <<"2", "0", "2", "3", "/", "1", "/", "5", " ", "1", ":", "2", ":", "3">>,
      parsed |-> TRUE, out |-> <<"January", " ", "0", "5", ",", " ", "2", "0", "2", "3", " ", "a", "t", " ", "0", "1", ":", "0", "2", ":", "0", "3">>],
     [s |-> <<"2", "0", "2", "3", ":", "0", "2", ":", "2", "9", " ", "1", "0", ":", "3", "0", ":", "0", "0">>,
      parsed |-> FALSE, out |-> <<>>],
     [s |-> <<"2", "0", "2", "3", "-", "0", "2", "-", "2", "9", " ", "1", "0", ":", "3", "0", ":", "0", "0">>,
      parsed |-> FALSE, out |-> <<>>],
     [s |-> <<"2", "0", "2", "3", "/", "0", "2", "/", "2", "9", " ", "1", "0", ":", "3", "0", ":", "0", "0">>,
      parsed |-> FALSE, out |-> <<>>],
     [s |-> <<"2", "0", "2", "3", ":", "1", "3", ":", "0", "1", " ", "1", "0", ":", "3", "0", ":", "0", "0">>,
      parsed |-> FALSE, out |-> <<>>],
     [s |-> <<"2", "0", "2", "3", "-", "1", "3", "-", "0", "1", " ", "1", "0", ":", "3", "0", ":", "0", "0">>,
      parsed |-> FALSE, out |-> <<>>],
     [s |-> <<"2", "0", "2", "3", "/", "1", "3", "/", "0", "1", " ", "1", "0", ":", "3", "0", ":", "0", "0">>,
      parsed |-> FALSE, out |-> <<>>],
     [s |-> <<"2", "0", "2", "3", ":", "0", "1", ":", "1", "5", " ", "2", "4", ":", "0", "0", ":", "0", "0">>,
      parsed |-> FALSE, out |-> <<>>],
     [s |-> <<"2", "0", "2", "3", "-", "0", "1", "-", "1", "5", " ", "2", "4", ":", "0", "0", ":", "0", "0">>,
      parsed |-> FALSE, out |-> <<>>],
     [s |-> <<"2", "0", "2", "3", "/", "0", "1", "/", "1", "5", " ", "2", "4", ":", "0", "0", ":", "0", "0">>,
      parsed |-> FALSE, out |-> <<>>],
     [s |-> <<"2", "0", "2", "3", ":", "0", "1", ":", "1", "5", " ", "1", "0", ":", "3", "0", ":", "6", "0">>,
      parsed |-> FALSE, out |-> <<>>],
     [s |-> <<"2", "0", "2", "3", "-", "0", "1", "-", "1", "5", " ", "1", "0", ":", "3", "0", ":", "6", "0">>,
      parsed |-> FALSE, out |-> <<>>],
     [s |-> <<"2", "0", "2", "3", "/", "0", "1", "/", "1", "5", " ", "1", "0", ":", "3", "0", ":", "6", "0">>,
      parsed |-> FALSE, out |-> <<>>],
     [s |-> <<"0", "0", "0", "0", ":", "0", "0", ":", "0", "0", " ", "0", "0", ":", "0", "0", ":", "0", "0">>,
      parsed |-> FALSE, out |-> <<>>],
     [s |-> <<"0", "0", "0", "0", "-", "0", "0", "-", "0", "0", " ", "0", "0", ":", "0", "0", ":", "0", "0">>,
      parsed |-> FALSE, out |-> <<>>],
     [s |-> <<"0", "0", "0", "0", "/", "0", "0", "/", "0", "0", " ", "0", "0", ":", "0", "0", ":", "0", "0">>,
      parsed |-> FALSE, out |-> <<>>],
     [s |-> <<"2", "0", "2", "3", ":", "0", "1", ":", "1", "5", " ", " ", "1", "0", ":", "3", "0", ":", "0", "0">>,
      parsed |-> TRUE, out |-> <<"January", " ", "1", "5", ",", " ", "2", "0", "2", "3", " ", "a", "t", " ", "1", "0", ":", "3", "0", ":", "0", "0">>],
     [s |-> <<"2", "0", "2", "3", "-", "0", "1", "-", "1", "5", " ", " ", "1", "0", ":", "3", "0", ":", "0", "0">>,
      parsed |-> TRUE, out |-> <<"January", " ", "1", "5", ",", " ", "2", "0", "2", "3", " ", "a", "t", " ", "1", "0", ":", "3", "0", ":", "0", "0">>],
     [s |-> <<"2", "0", "2", "3", "/", "0", "1", "/", "1", "5", " ", " ", "1", "0", ":", "3", "0", ":", "0", "0">>,
      parsed |-> TRUE, out |-> <<"January", " ", "1", "5", ",", " ", "2", "0", "2", "3", " ", "a", "t", " ", "1", "0", ":", "3", "0", ":", "0", "0">>],
     [s |-> <<"1", "9", "0", "0", ":", "0", "2", ":", "2", "9", " ", "1", "2", ":", "0", "0", ":", "0", "0">>,
      parsed |-> FALSE, out |-> <<>>],
     [s |-> <<"1", "9", "0", "0", "-", "0", "2", "-", "2", "9", " ", "1", "2", ":", "0", "0", ":", "0", "0">>,
      parsed |-> FALSE, out |-> <<>>],
     [s |-> <<"1", "9", "0", "0", "/", "0", "2", "/", "2", "9", " ", "1", "2", ":", "0", "0", ":", "0", "0">>,
      parsed |-> FALSE, out |-> <<>>],
     [s |-> <<"2", "0", "0", "0", ":", "0", "2", ":", "2", "9", " ", "1", "2", ":", "0", "0", ":", "0", "0">>,
      parsed |-> TRUE, out |-> <<"February", " ", "2", "9", ",", " ", "2", "0", "0", "0", " ", "a", "t", " ", "1", "2", ":", "0", "0", ":", "0", "0">>],
     [s |-> <<"2", "0", "0", "0", "-", "0", "2", "-", "2", "9", " ", "1", "2", ":", "0", "0", ":", "0", "0">>,
      parsed |-> TRUE, out |-> <<"February", " ", "2", "9", ",", " ", "2", "0", "0", "0", " ", "a", "t", " ", "1", "2", ":", "0", "0", ":", "0", "0">>],
     [s |-> <<"2", "0", "0", "0", "/", "0", "2", "/", "2", "9", " ", "1", "2", ":", "0", "0", ":", "0", "0">>,
      parsed |-> TRUE, out |-> <<"February", " ", "2", "9", ",", " ", "2", "0", "0", "0", " ", "a", "t", " ", "1", "2", ":", "0", "0", ":", "0", "0">>],
     [s |-> <<"2", "0", "2", "3", ":", "0", "4", ":", "3", "1", " ", "0", "8", ":", "0", "0", ":", "0", "0">>,
      parsed |-> FALSE, out |-> <<>>],
     [s |-> <<"2", "0", "2", "3", "-", "0", "4", "-", "3", "1", " ", "0", "8", ":", "0", "0", ":", "0", "0">>,
      parsed |-> FALSE, out |-> <<>>],
     [s |-> <<"2", "0", "2", "3", "/", "0", "4", "/", "3", "1", " ", "0", "8", ":", "0", "0", ":", "0", "0">>,
      parsed |-> FALSE, out |-> <<>>],
     [s |-> <<"2", "0", "2", "3", ":", "1", "1", ":", "3", "0", " ", "0", "8", ":", "0", "7", ":", "0", "9">>,
      parsed |-> TRUE, out |-> <<"November", " ", "3", "0", ",", " ", "2", "0", "2", "3", " ", "a", "t", " ", "0", "8", ":", "0", "7", ":", "0", "9">>],
     [s |-> <<"2", "0", "2", "3", "-", "1", "1", "-", "3", "0", " ", "0", "8", ":", "0", "7", ":", "0", "9">>,
      parsed |-> TRUE, out |-> <<"November", " ", "3", "0", ",", " ", "2", "0", "2", "3", " ", "a", "t", " ", "0", "8", ":", "0", "7", ":", "0", "9">>],
     [s |-> <<"2", "0", "2", "3", "/", "1", "1", "/", "3", "0", " ", "0", "8", ":", "0", "7", ":", "0", "9">>,
      parsed |-> TRUE, out |-> <<"November", " ", "3", "0", ",", " ", "2", "0", "2", "3", " ", "a", "t", " ", "0", "8", ":", "0", "7", ":", "0", "9">>],
     [s |-> <<"g", "a", "r", "b", "a", "g", "e">>,
      parsed |-> FALSE, out |-> <<>>],
     [s |-> <<>>,
      parsed |-> FALSE, out |-> <<>>],
     [s |-> <<"2", "0", "2", "3", ":", "0", "1", "-", "1", "5", " ", "1", "0", ":", "3", "0", ":", "0", "0">>,
      parsed |-> FALSE, out |-> <<>>],
     [s |-> <<"2", "0", "2", "3", ":", "0", "1", ":", "1", "5">>,
      parsed |-> FALSE, out |-> <<>>],
     [s |-> <<"1", "0", ":", "3", "0", ":", "0", "0">>,
      parsed |-> FALSE, out |-> <<>>],
     [s |-> <<"2", "0", "2", "3", ":", "0", "1", ":", "1", "5", "T", "1", "0", ":", "3", "0", ":", "0", "0">>,
      parsed |-> FALSE, out |-> <<>>],
     [s |-> <<"2", "0", "2", "3", ".", "0", "1", ".", "1", "5", " ", "1", "0", ":", "3", "0", ":", "0", "0">>,
      parsed |-> FALSE, out |-> <<>>],
     [s |-> <<"2", "3", ":", "0", "1", ":", "1", "5", " ", "1", "0", ":", "3", "0", ":", "0", "0">>,
      parsed |-> FALSE, out |-> <<>>],
     [s |-> <<"2", "0", "2", "3", ":", "0", "1", ":", "1", "5", " ", "1", "0", ":", "3", "0">>,
      parsed |-> FALSE, out |-> <<>>],
     [s |-> <<"2", "0", "2", "3", ":", "0", "1", ":", "1", "5", " ", "1", "0", ":", "3", "0", ":", "0", "0", " ", "x">>,
      parsed |-> FALSE, out |-> <<>>],
     [s |-> <<" ", "2", "0", "2", "3", ":", "0", "1", ":", "1", "5", " ", "1", "0", ":", "3", "0", ":", "0", "0">>,
      parsed |-> TRUE, out |-> <<"January", " ", "1", "5", ",", " ", "2", "0", "2", "3", " ", "a", "t", " ", "1", "0", ":", "3", "0", ":", "0", "0">>],
     [s |-> <<"2", "0", "2", "3", "-", "0", "1", "-", "1", "5", " ", "1", "0", ":", "3", "0", ":", "0", "0", " ">>,
      parsed |-> TRUE, out |-> <<"January", " ", "1", "5", ",", " ", "2", "0", "2", "3", " ", "a", "t", " ", "1", "0", ":", "3", "0", ":", "0", "0">>],
     [s |-> <<" ", "g", "a", "r", "b", "a", "g", "e">>,
      parsed |-> FALSE, out |-> <<>>],
     [s |-> <<"g", "a", "r", "b", "a", "g", "e", " ">>,
      parsed |-> FALSE, out |-> <<>>],
     [s |-> <<" ", " ", " ", " ", ":", " ", " ", ":", " ", " ", " ", " ", " ", ":", " ", " ", ":", " ", " ">>,
      parsed |-> FALSE, out |-> <<>>],
     [s |-> <<"2", "0", "2", "3", ":", "0", "1", ":", "1", "5", " ", "1", "0", ":", "3", "0", ":", "0", "0", "Z", " ">>,
      parsed |-> FALSE, out |-> <<>>]
    }

DateTimeChoices == {Str(c.s) : c \in DateCases}

InitDate ==
    /\ pc = "GpsResolved"
    /\ outcome = "running"
    /\ gui = GuiStart
    /\ file = File("image", 100, 1, {})
    /\ img = Img(<<4, 3>>, 2, NoneV)
    /\ metadata = Put(MetadataAtExifMerged(file, img),
                      "GPS & Location Data", GpsCategory(EmptyDict))
    /\ handles = {"img"}
    /\ hash_functions = EmptyDict
    /\ fpos = 0
    /\ reads = 0
    /\ \E d \in DateTimeChoices : exif_data = DecodeExif([id \in {306} |-> d])

NextDate ==
    \/ DateResolve
    \/ NextCamera

SpecDate == InitDate /\ [][NextDate]_vars

\* C16: format_exif_time reformats a text that one of the colon, dash and
\* slash patterns accepts to "Month DD, YYYY at HH:MM:SS", and returns every
\* other input text unchanged.
C16_ReformatsOrReturnsInput ==
    (pc = "DateResolved" /\ "DateTime" \in DOMAIN exif_data) =>
        \A c \in DateCases :
           exif_data["DateTime"] = Str(c.s) =>
              metadata["Date & Time Information"].v["Capture Time"] =
                 (IF c.parsed THEN Str(c.out) ELSE Str(c.s))

\* the Model tag exists and one of the phone patterns matches it
ModelIsPhone ==
    /\ "Model" \in DOMAIN exif_data
    /\ \E c \in PhoneCases : exif_data["Model"] = Str(c.s) /\ c.brand # <<>>

\* C15: in the record of an extraction that reached Done, Device Information
\* is present exactly when the Model tag exists and matches a phone pattern;
\* it is a Smartphone whose Operating System is iOS for the brands iPhone and
\* iPad and Android for every other brand of the table.
C15_DeviceInformationIffPhone ==
    pc = "Done" =>
        /\ Has("Device Information") <=> ModelIsPhone
        /\ Has("Device Information") =>
              /\ metadata["Device Information"].v["Device Type"] = Str(<<"Smartphone">>)
              /\ metadata["Device Information"].v["Operating System"] =
                    (IF metadata["Device Information"].v["Brand"]
                           \in {Str(<<"i", "P", "h", "o", "n", "e">>), Str(<<"i", "P", "a", "d">>)}
                     THEN Str(<<"iOS">>) ELSE Str(<<"Android">>))

C15_Witness ==
    /\ pc = "Done"
    /\ Has("Device Information")
    /\ metadata["Device Information"].v["Brand"] = Str(<<"M", "o", "t", "o", "r", "o", "l", "a">>)
    /\ metadata["Device Information"].v["Operating System"] = Str(<<"Android">>)

\* the Flash field of the record
FlashField == metadata["Camera Information"].v["Flash"]

\* C18: the Flash field is the lookup table's description of the numeric
\* flash tag (0x19 gives "Auto, Fired"), and "Unknown (Value: n)" with n in
\* decimal for every value that is not a key of the table (0xFF gives
\* "Unknown (Value: 255)").
C18_FlashLookup ==
    (pc = "CameraResolved" /\ "Flash" \in DOMAIN exif_data) =>
        LET n == exif_data["Flash"].v
        IN /\ n = 25 => FlashField = Str(<<"Auto, Fired">>)
           /\ n = 0 => FlashField = Str(<<"No Flash">>)
           /\ n = 24 => FlashField = Str(<<"Auto, Did not fire">>)
           /\ n = 95 => FlashField = Str(<<"Auto, Fired, Red-eye reduction, Return detected">>)
           /\ n = 255 => FlashField = Str(<<"Unknown (Value: ", "2", "5", "5", ")">>)
           /\ n = 2 => FlashField = Str(<<"Unknown (Value: ", "2", ")">>)
           /\ n = 96 => FlashField = Str(<<"Unknown (Value: ", "9", "6", ")">>)
           /\ n \in FlashKeys =>
                 /\ Len(FlashField.v) = 1
                 /\ FlashField.v[1] \notin {"Unknown", "Unknown (Value: "}
           /\ n \notin FlashKeys =>
                 FlashField = Str(<<"Unknown (Value: ">> \o NatStr(n) \o <<")">>)

C18_Witness ==
    /\ pc = "CameraResolved"
    /\ "Flash" \in DOMAIN exif_data
    /\ exif_data["Flash"].v = 255
    /\ FlashField = Str(<<"Unknown (Value: ", "2", "5", "5", ")">>)

\* the stages of one extraction in their order; the read loop of
\* calculate_file_hashes belongs to the stage that ends at Hashed
StageOrder ==
    <<"Init", "FileStatted", "Hashed", "ImageOpened", "ExifMerged", "GpsResolved",
      "DateResolved", "CameraResolved", "AdditionalTagsMerged", "ToolInfoAttached", "Done">>

StageOf(p) == IF p = "Hashing" THEN "FileStatted" ELSE p

StageIndex(st) == CHOOSE i \in 1..Len(StageOrder) : StageOrder[i] = st

\* a step stays inside the hashing stage, moves to the next stage, or enters
\* Failed from one of the stages of from; Done and Failed have no successor
StageStep(from) ==
    LET a == StageOf(pc)
        b == StageOf(pc')
    IN /\ a \notin {"Done", "Failed"}
       /\ \/ a = b /\ a = "FileStatted"
          \/ b # "Failed" /\ StageIndex(b) = StageIndex(a) + 1
          \/ b = "Failed" /\ a \in from

StagesFrom(first) ==
    {StageOrder[i] : i \in StageIndex(first)..(Len(StageOrder) - 1)}

FailsFromHashedOn == StageStep({"Init"} \cup StagesFrom("Hashed"))

FailsFromImageOpenedOn == StageStep({"Init"} \cup StagesFrom("ImageOpened"))

\* C19 (amended): every extraction passes through the stages in the order
\* Init, FileStatted, Hashed, ImageOpened, ExifMerged, GpsResolved,
\* DateResolved, CameraResolved, AdditionalTagsMerged, ToolInfoAttached, Done,
\* each at most once and none skipped; Failed is terminal and is entered only
\* from Init or from Hashed or a later stage, never from FileStatted.
C19_StagesInOrder == [][FailsFromHashedOn]_vars

\* an extraction that failed at Image.open, after hashing
C19_Witness ==
    /\ pc = "Failed"
    /\ Has("File Integrity")
    /\ ~Has("Image Dimensions & Quality")

\* C19 as stated: Failed is entered only from Init or from ImageOpened or a
\* later stage, never from FileStatted or Hashed.
C19_FailedNeverFromHashed == [][FailsFromImageOpenedOn]_vars

\* the modern mapping that holds what the legacy sequence s holds at
\* positions 1-4, 5, 6 and 16
ModernOf(s) ==
    Dict([k \in {k \in {1, 2, 3, 4, 5, 6, 16} : k < Len(s)} |-> s[k + 1]])

HasLegacyGps == "GPSInfo" \in DOMAIN exif_data /\ exif_data["GPSInfo"].t = "tuple"

SameCategory(a, b) == a.kind = b.kind /\ a.v = b.v

\* the outcome of the GPS stage for the legacy sequence of the state is the
\* outcome for the modern mapping m
SameAsModern(m) ==
    LET r == GpsStage([k \in {"GPSInfo"} |-> m], <<>>)
    IN /\ GpsInfoDict(exif_data["GPSInfo"]).ok
       /\ GpsInfoDict(m).ok
       /\ GpsInfoDict(exif_data["GPSInfo"]).val = GpsInfoDict(m).val
       /\ SameCategory(metadata["GPS & Location Data"], GpsCategory(r.gps_info))
       /\ metadata["Warnings"].v = r.warnings

\* C20: a legacy flat sequence and the modern mapping holding the same values
\* at positions 1-4 (and 5, 6, 16 when present) give the same GPS tag mapping
\* and the same GPS category; a legacy sequence too short for positions 1-4
\* gives one GPS warning and the "No GPS data found" placeholder, and no
\* critical error.
C20_LegacyEqualsModern ==
    (pc = "GpsResolved" /\ HasLegacyGps) =>
        IF Len(exif_data["GPSInfo"].v) >= 5
        THEN SameAsModern(ModernOf(exif_data["GPSInfo"].v))
        ELSE /\ NoFix
             /\ metadata["Warnings"].v = <<GpsWarning>>
             /\ ~Has("Critical Error")
             /\ outcome = "running"

C20_Witness ==
    /\ pc = "GpsResolved"
    /\ HasLegacyGps
    /\ Len(exif_data["GPSInfo"].v) = 17
    /\ metadata["GPS & Location Data"].kind = "fields"
    /\ metadata["GPS & Location Data"].v["Altitude"] = Str(<<"1", "2", "0", " meters">>)
    /\ metadata["GPS & Location Data"].v["Direction"] = Str(<<"9", "0", "\\u00b0">>)

(***************************************************************************)
(* The scan of analyze_steganography through its call site (line 242):     *)
(* image files holding every combination of the five signatures.           *)
(***************************************************************************)
StegFiles ==
    {File("image", 100, 1, marks) :
        marks \in SUBSET {"Photoshop", "Steg", "steg", "LSB", "lsb"}}

\* an extraction whose stat and hash stages are done (lines 204-219)
InitSteg ==
    /\ pc = "Hashed"
    /\ outcome = "running"
    /\ gui = GuiStart
    /\ file \in StegFiles
    /\ metadata = Put(Put(InitialMetadata, "File Information",
                          Fields(FileInformation(file))),
                      "File Integrity",
                      Fields(HashesOnSuccess([a \in Algs |->
                          HashUpdate(a, HashNew(a), file, Read(file, 0, ChunkSize))])))
    /\ handles = {}
    /\ hash_functions = EmptyDict
    /\ fpos = 0
    /\ reads = 0
    /\ img = NoneV
    /\ exif_data = EmptyDict

SpecSteg == InitSteg /\ [][ImageOpen \/ ExifMerge]_vars

\* the Steganography Indicators field of the record
StegField == metadata["Forensic Analysis"].v["Steganography Indicators"].v[1]

\* C21: analyze_steganography gives exactly one result, chosen by priority
\* over the file's bytes: the editing-tool signature, then "Steg"/"steg", then
\* "LSB"/"lsb"; the none-detected message when no signature occurs and the
\* analysis-failed message when the read errors; a read error never reaches
\* the pipeline's handler.
C21_OneResultByPriority ==
    (pc \in {"ExifMerged", "Failed"} /\ img # NoneV) =>
        /\ Len(metadata["Forensic Analysis"].v["Steganography Indicators"].v) = 1
        /\ StegField # "Steganography analysis failed" =>
              /\ "Photoshop" \in file.marks <=>
                    StegField = "Potential Photoshop editing detected"
              /\ ("Photoshop" \notin file.marks /\ file.marks \cap {"Steg", "steg"} # {}) <=>
                    StegField = "Possible steganography markers found"
              /\ (file.marks \cap {"Photoshop", "Steg", "steg"} = {}
                     /\ file.marks \cap {"LSB", "lsb"} # {}) <=>
                    StegField = "Possible LSB steganography indicators"
              /\ file.marks = {} <=>
                    StegField = "No obvious steganography markers detected"
        /\ Has("Stack Trace") => metadata["Stack Trace"].v.where = "img._getexif"

\* the read failed and the extraction went on
C21_Witness ==
    /\ pc = "ExifMerged"
    /\ StegField = "Steganography analysis failed"
    /\ file.marks = {"Photoshop", "lsb"}
    /\ ~Has("Critical Error")

\* C22: on every exit path of an extraction (Done, Failed, an exception
\* raised while a handle is open in the hash, decode, scan or EXIF stage),
\* every file handle the pipeline opened is released when
\* extract_all_metadata returns; the hash handle is open only inside the
\* read loop and the image handle only from ImageOpened to DateResolved.
C22_HandlesReleased ==
    /\ outcome # "running" => handles = {}
    /\ pc \in {"Done", "Failed"} => handles = {}
    /\ handles \subseteq {"hash", "img"}
    /\ "hash" \in handles <=> pc = "Hashing"
    /\ "img" \in handles <=> pc \in {"ImageOpened", "ExifMerged", "GpsResolved", "DateResolved"}

\* the low-level decoder raised with its file open, and the record returned
C22_Witness ==
    /\ pc = "Failed"
    /\ outcome = "returned"
    /\ Has("Stack Trace")
    /\ metadata["Stack Trace"].v.where = "exifread.process_file"
    /\ handles = {}

\* C23: every returned record has one of two shapes: Tool Information
\* without Critical Error and Stack Trace (Done), or Critical Error and Stack
\* Trace without Tool Information (Failed); Critical Error and Stack Trace
\* are present together or absent together, in every state.
C23_TwoTerminalShapes ==
    /\ Has("Critical Error") <=> Has("Stack Trace")
    /\ outcome = "returned" =>
          \/ /\ pc = "Done"
             /\ Has("Tool Information")
             /\ ~Has("Critical Error") /\ ~Has("Stack Trace")
          \/ /\ pc = "Failed"
             /\ Has("Critical Error") /\ Has("Stack Trace")
             /\ ~Has("Tool Information")

\* a record of the Failed shape from the last stage that can fail
C23_Witness ==
    /\ outcome = "returned"
    /\ pc = "Failed"
    /\ Has("Camera Information")
    /\ Has("Critical Error") /\ Has("Stack Trace")
    /\ ~Has("Tool Information")

\* C24: in every returned record, also one of the Failed shape, a Device
\* Information category comes with a Camera Information category that is a
\* field mapping whose Model is the Model tag that produced the device match.
C24_DeviceComesWithCameraModel ==
    (outcome = "returned" /\ Has("Device Information")) =>
        /\ "Model" \in DOMAIN exif_data
        /\ Has("Camera Information")
        /\ metadata["Camera Information"].kind = "fields"
        /\ "Model" \in DOMAIN metadata["Camera Information"].v
        /\ metadata["Camera Information"].v["Model"] = exif_data["Model"]
        /\ \E c \in PhoneCases :
              /\ exif_data["Model"] = Str(c.s)
              /\ metadata["Device Information"].v["Brand"] = Str(c.brand)

\* a record of the Failed shape with a device match
C24_Witness ==
    /\ outcome = "returned"
    /\ pc = "Failed"
    /\ Has("Device Information")
    /\ metadata["Device Information"].v["Brand"] = Str(<<"M", "o", "t", "o", "r", "o", "l", "a">>)
    /\ metadata["Camera Information"].v["Model"] = Str(<<"m", "o", "t", "o", " ", "g", "7">>)

\* the number of divisions by 1024 that the printed unit stands for
UnitExponent == (CHOOSE k \in 1..Len(SizeUnits) : SizeUnits[k] = SizeParts[2]) - 1

\* the printed number times 1024^u is n * 1024^e, up to the rounding of the
\* second decimal (h is the printed number in hundredths)
MatchesCount(h, u, n, e) ==
    LET c == IF u < e THEN u ELSE e
        lhs == h * Scale(u - c)
        rhs == 100 * n * Scale(e - c)
    IN /\ 2 * (lhs - rhs) <= Scale(u - c)
       /\ 2 * (rhs - lhs) <= Scale(u - c)

\* C25: for every byte count n, also one of 1024^6 or more, the number
\* printed by get_human_readable_size times the byte size of the printed
\* unit is n up to display rounding.
C25_NumberTimesUnitIsCount ==
    pc = "FileStatted" =>
        /\ Len(SizeParts) = 2
        /\ \E k \in 1..Len(SizeUnits) : SizeUnits[k] = SizeParts[2]
        /\ IF UnitExponent = 0
           THEN file.exp = 0 /\ SizeParts[1] = NatStr(file.len)
           ELSE /\ IsTwoDecimals(SizeParts[1])
                /\ MatchesCount(Hundredths(SizeParts[1]), UnitExponent, file.len, file.exp)

(***************************************************************************)
(* MetadataExtractorApp: the handlers of the three buttons.                *)
(***************************************************************************)
\* lines 858-869 with the dialog accepted: the chosen file becomes
\* current_file and analyze_image runs; the record of the n-th analysis that
\* reached line 909 has id n
open_image ==
    /\ gui.metadata.id < MaxAnalyses
    /\ \E readable \in BOOLEAN, encodable \in BOOLEAN :
          gui' = analyze_image(
                    [gui EXCEPT !.current_file =
                        [readable |-> readable, encodable |-> encodable, chosen |-> TRUE]],
                    [id |-> gui.metadata.id + 1, encodable |-> encodable])
    /\ UNCHANGED <<pc, outcome, file, metadata, handles, hash_functions, fpos, reads,
                   img, exif_data>>

\* lines 1077-1113 with the dialog accepted: a click on the enabled button;
\* json.dump or the write raises, or the report is saved
save_report ==
    /\ gui.save_button
    /\ gui.metadata.id # 0
    /\ \E written \in BOOLEAN :
          gui' = [gui EXCEPT !.message =
                     IF written /\ gui.metadata.encodable
                     THEN "Report saved successfully" ELSE "Failed to save report"]
    /\ UNCHANGED <<pc, outcome, file, metadata, handles, hash_functions, fpos, reads,
                   img, exif_data>>

\* lines 1116-1170 with the dialog accepted
export_to_txt ==
    /\ gui.export_button
    /\ gui.metadata.id # 0
    /\ \E written \in BOOLEAN :
          gui' = [gui EXCEPT !.message =
                     IF written /\ gui.metadata.encodable
                     THEN "Report exported successfully" ELSE "Failed to export report"]
    /\ UNCHANGED <<pc, outcome, file, metadata, handles, hash_functions, fpos, reads,
                   img, exif_data>>

\* the window after construction; no extraction is under way
InitGui ==
    /\ pc = "Init"
    /\ outcome = "running"
    /\ gui = GuiStart
    /\ file = File("missing", 0, 0, {})
    /\ metadata = InitialMetadata
    /\ handles = {}
    /\ hash_functions = EmptyDict
    /\ fpos = 0
    /\ reads = 0
    /\ img = NoneV
    /\ exif_data = EmptyDict

SpecGui == InitGui /\ [][open_image \/ save_report \/ export_to_txt]_vars

\* the three views show the record held in self.metadata
ViewsShowHeldRecord ==
    /\ gui.metadata_tree = gui.metadata.id
    /\ gui.json_view = gui.metadata.id
    /\ gui.forensic_view = gui.metadata.id

\* C26: after any sequence of open/analyze, save and export actions,
\* whenever the Save Report and Export buttons are enabled the tree, JSON and
\* forensic views were all rendered from the record held in self.metadata.
C26_EnabledButtonsMeanRenderedViews ==
    (gui.save_button \/ gui.export_button) => ViewsShowHeldRecord

====
